---- MODULE Spec2Model ----
(***************************************************************************)
(* A model of the IntegralQ-BI backend: the FastAPI service of main.py     *)
(* (analyze, data, chat, health over the in-memory SESSION_STORE), the     *)
(* blueprint parser of sop_service.py, and the pure services of            *)
(* services/cleaner.py, services/detector.py and services/analyzer.py.     *)
(*                                                                         *)
(* Text is modelled as a sequence of characters, each character a string:  *)
(* an ASCII character is itself ("a", " "), a non-ASCII character is named *)
(* by its code point ("U+0130").  Chars("abc") writes such a sequence.     *)
(***************************************************************************)
EXTENDS Integers, Sequences, FiniteSets, TLC

VARIABLES
    SESSION_STORE,  \* main.py: session id -> stored DataFrame
    inflight,       \* the /analyze requests in flight, one record per slot
    issued,         \* the session ids uuid4 has produced so far
    returned,       \* the session ids a successful /analyze response carried
    started,        \* how many /analyze requests were received
    last,           \* the response of the latest /data, /chat or /health request
    op,             \* a service call: the function that was applied
    arg,            \* a service call: its input
    res             \* a service call: its result

vars == <<SESSION_STORE, inflight, issued, returned, started, last, op, arg, res>>

(***************************** bounds **************************************)

\* Header strings of the standardization check have at most MaxLen characters.
MaxLen == 3
\* Header lists given to the detector have at most MaxHeaders entries.
MaxHeaders == 3
\* Serial values are taken within Margin of each bound of the serial range.
Margin == 3
\* Numbers are fixed-point: a number is units / Scale.
Scale == 2
\* At most MaxAnalyses /analyze requests are received.
MaxAnalyses == 2
\* /data is asked for the pages 1..MaxPage.
MaxPage == 2

(***************************** text ****************************************)

Chars(s) == [i \in 1..Len(s) |-> SubSeq(s, i, i)]

Range(f) == {f[i] : i \in DOMAIN f}

UpperLetters == Chars("ABCDEFGHIJKLMNOPQRSTUVWXYZ")
LowerLetters == Chars("abcdefghijklmnopqrstuvwxyz")
DigitChars == Chars("0123456789")
UpperSet == Range(UpperLetters)
WordSet == UpperSet \cup Range(LowerLetters) \cup Range(DigitChars) \cup {"_"}

\* U+0130 LATIN CAPITAL LETTER I WITH DOT ABOVE: a letter whose lower case is
\* two code points, "i" followed by U+0307 COMBINING DOT ABOVE (a mark, which
\* is neither a word character nor white space).
CapitalIDot == "U+0130"
CombiningDot == "U+0307"

\* Python's \s on the characters of the model.
IsSpace(c) == c \in {" ", "\t", "\n"}

\* Python's \w: alphanumeric or underscore.
IsWord(c) == c \in WordSet \/ c = CapitalIDot

\* str.lower of one character (a sequence: lower-casing can lengthen).
LowerChar(c) ==
    IF c \in UpperSet
    THEN <<LowerLetters[CHOOSE i \in DOMAIN UpperLetters : UpperLetters[i] = c]>>
    ELSE IF c = CapitalIDot THEN <<"i", CombiningDot>>
    ELSE <<c>>

RECURSIVE lower(_)
lower(s) == IF s = <<>> THEN <<>> ELSE LowerChar(Head(s)) \o lower(Tail(s))

RECURSIVE lstrip(_)
lstrip(s) == IF s # <<>> /\ IsSpace(Head(s)) THEN lstrip(Tail(s)) ELSE s

RECURSIVE rstrip(_)
rstrip(s) ==
    IF s # <<>> /\ IsSpace(s[Len(s)]) THEN rstrip(SubSeq(s, 1, Len(s) - 1)) ELSE s

strip(s) == rstrip(lstrip(s))

\* Python's "needle in hay" on strings.
Contains(hay, needle) ==
    \E i \in 0..(Len(hay) - Len(needle)) : SubSeq(hay, i + 1, i + Len(needle)) = needle

\* str.endswith
endswith(s, suffix) ==
    /\ Len(s) >= Len(suffix)
    /\ SubSeq(s, Len(s) - Len(suffix) + 1, Len(s)) = suffix

(************************ services/cleaner.py: headers **********************)

\* re.sub(r'[^\w\s]', '', header)
RECURSIVE RemoveNonWord(_)
RemoveNonWord(s) ==
    IF s = <<>> THEN <<>>
    ELSE IF IsWord(Head(s)) \/ IsSpace(Head(s))
         THEN <<Head(s)>> \o RemoveNonWord(Tail(s))
         ELSE RemoveNonWord(Tail(s))

\* re.sub(r'\s+', '_', header): every maximal run of white space becomes one "_".
RECURSIVE CollapseSpaces(_)
CollapseSpaces(s) ==
    IF s = <<>> THEN <<>>
    ELSE IF IsSpace(Head(s))
         THEN <<"_">> \o CollapseSpaces(lstrip(s))
         ELSE <<Head(s)>> \o CollapseSpaces(Tail(s))

_standardize_header(header) ==
    lower(CollapseSpaces(RemoveNonWord(strip(header))))

(************************ services/detector.py *******************************)

\* DOMAIN_PATTERNS, in declaration (dict insertion) order.
DOMAIN_PATTERNS == <<
    [domain |-> "finance", patterns |-> <<
        Chars("revenue"), Chars("profit"), Chars("expense"), Chars("budget"),
        Chars("cost"), Chars("price"), Chars("amount"), Chars("balance"),
        Chars("transaction"), Chars("invoice"), Chars("payment"), Chars("credit"),
        Chars("debit"), Chars("tax"), Chars("gross"), Chars("net"), Chars("margin")>>],
    [domain |-> "hr", patterns |-> <<
        Chars("employee"), Chars("salary"), Chars("department"), Chars("hire"),
        Chars("manager"), Chars("position"), Chars("title"), Chars("role"),
        Chars("team"), Chars("staff"), Chars("worker"), Chars("performance"),
        Chars("review"), Chars("tenure"), Chars("payroll"), Chars("benefits")>>],
    [domain |-> "education", patterns |-> <<
        Chars("student"), Chars("grade"), Chars("course"), Chars("teacher"),
        Chars("class"), Chars("subject"), Chars("score"), Chars("exam"),
        Chars("semester"), Chars("enrollment"), Chars("gpa"), Chars("attendance"),
        Chars("curriculum"), Chars("academic")>>],
    [domain |-> "biology", patterns |-> <<
        Chars("gene"), Chars("protein"), Chars("cell"), Chars("species"),
        Chars("dna"), Chars("rna"), Chars("sequence"), Chars("mutation"),
        Chars("organism"), Chars("sample"), Chars("experiment"),
        Chars("concentration"), Chars("ph"), Chars("assay"), Chars("culture")>>] >>

\* The minimum score of a detected domain.
MinScore == 2

\* headers = [h.lower() for h in data.get('headers', [])]
LowerAll(headers) == [i \in DOMAIN headers |-> lower(headers[i])]

\* The loop over the headers for one pattern: +1 for each header holding it.
RECURSIVE CountHeaders(_, _)
CountHeaders(pattern, headers) ==
    IF headers = <<>> THEN 0
    ELSE (IF Contains(Head(headers), pattern) THEN 1 ELSE 0)
         + CountHeaders(pattern, Tail(headers))

\* The loop over the patterns of one domain.
RECURSIVE ScorePatterns(_, _)
ScorePatterns(patterns, headers) ==
    IF patterns = <<>> THEN 0
    ELSE CountHeaders(Head(patterns), headers) + ScorePatterns(Tail(patterns), headers)

\* scores, indexed by the position of the domain in DOMAIN_PATTERNS.
DomainScores(headers) ==
    [d \in DOMAIN DOMAIN_PATTERNS |-> ScorePatterns(DOMAIN_PATTERNS[d].patterns, headers)]

\* A plausible slip: the later of two equal scores wins.
KeepLaterBest(sc, d, best) == IF sc[d] >= sc[best] THEN d ELSE best

\* One step of max(scores, key=scores.get): a later key replaces the best so far
\* only when its score is strictly greater.
KeepBest(sc, d, best) == IF sc[d] > sc[best] THEN d ELSE best

RECURSIVE MaxKey(_, _, _)
MaxKey(sc, d, best) ==
    IF d > Len(sc) THEN best ELSE MaxKey(sc, d + 1, KeepBest(sc, d, best))

detect(headers0) ==
    LET headers == LowerAll(headers0) IN
    IF headers = <<>> THEN "general"
    ELSE LET sc == DomainScores(headers)
             best_domain == MaxKey(sc, 2, 1)
         IN  IF sc[best_domain] >= MinScore
             THEN DOMAIN_PATTERNS[best_domain].domain
             ELSE "general"

(************************ serial dates **************************************)

\* A number v is held as v * Scale units.  A date is a count of whole days since
\* 1899-12-30, the epoch of both conversions.
\* Values: [kind |-> "int" | "float", units], [kind |-> "nan"], [kind |-> "none"],
\* [kind |-> "str", parses, days], [kind |-> "datetime" | "timestamp", days].

SERIAL_MIN == 20000
SERIAL_MAX == 100000

\* isinstance(value, (int, float)); NaN is a float.
IsNumber(value) == value.kind \in {"int", "float", "nan"}

\* isinstance(value, datetime): pandas.Timestamp is a subclass of datetime.
IsDatetime(value) == value.kind \in {"datetime", "timestamp"}

\* pd.isna(value)
isna(value) == value.kind \in {"nan", "none", "nat"}

\* int(value): truncation towards zero.
IntOf(value) ==
    IF value.units >= 0 THEN value.units \div Scale ELSE -((-value.units) \div Scale)

\* A plausible slip: inclusive bounds.
InSerialRangeInclusive(value) ==
    /\ value.kind # "nan"
    /\ SERIAL_MIN * Scale <= value.units
    /\ value.units <= SERIAL_MAX * Scale

\* 20000 < value < 100000; every comparison with NaN is False.
InSerialRange(value) ==
    /\ value.kind # "nan"
    /\ SERIAL_MIN * Scale < value.units
    /\ value.units < SERIAL_MAX * Scale

\* cleaner.py: a serial becomes pd.Timestamp('1899-12-30') + Timedelta(days=int(value));
\* anything else is returned as it came.
_convert_excel_date(value) ==
    IF isna(value) THEN value
    ELSE IF IsNumber(value) /\ InSerialRange(value)
         THEN [kind |-> "timestamp", days |-> IntOf(value)]
         ELSE value

\* analyzer.py: datetime.now() is the value for whatever cannot be converted;
\* now is the day the call is made.
_convert_date(value, now) ==
    IF IsDatetime(value) THEN value
    ELSE IF IsNumber(value) /\ InSerialRange(value)
         THEN [kind |-> "datetime", days |-> IntOf(value)]
    ELSE IF value.kind = "str" /\ value.parses
         THEN [kind |-> "datetime", days |-> value.days]
    ELSE [kind |-> "datetime", days |-> now]

(************************ DataFrames ****************************************)

\* A cell: a number, a text, a timestamp (a day since 1899-12-30), NaN or NaT.
Num(n) == [t |-> "num", n |-> n]
Str(s) == [t |-> "str", s |-> s]
Ts(d) == [t |-> "ts", day |-> d]
NaN == [t |-> "nan"]
NaT == [t |-> "nat"]

IsNull(cell) == cell.t \in {"nan", "nat"}

\* A DataFrame: the column names (text), the dtype of each column ("num" for
\* int64/float64, "obj" for object, "date" for datetime64) and the rows, each a
\* sequence of cells in column order.
DataFrame(columns, dtypes, rows) == [columns |-> columns, dtypes |-> dtypes, rows |-> rows]

\* len(df)
NRows(df) == Len(df.rows)

\* The position of a column, 0 when the frame has no such column (df[col] then
\* raises KeyError).
ColIndex(df, col) ==
    IF \E i \in DOMAIN df.columns : df.columns[i] = col
    THEN CHOOSE i \in DOMAIN df.columns :
            df.columns[i] = col /\ \A j \in 1..(i - 1) : df.columns[j] # col
    ELSE 0

HasCol(df, col) == ColIndex(df, col) # 0

\* pd.api.types.is_numeric_dtype(df[col])
is_numeric_dtype(df, col) == df.dtypes[ColIndex(df, col)] = "num"

\* pd.api.types.is_datetime64_any_dtype(df[col])
is_datetime64_any_dtype(df, col) == df.dtypes[ColIndex(df, col)] = "date"

\* The dtype pandas infers for a parsed column: object for a column without
\* values (a table without data rows), numeric when every cell is a number or
\* missing, object otherwise.
InferDtype(rows, i) ==
    IF rows = <<>> THEN "obj"
    ELSE IF \A k \in DOMAIN rows : rows[k][i].t \in {"num", "nan"} THEN "num" ELSE "obj"

\* The name pandas gives the column at position i (from 1) whose header cell
\* is empty: "Unnamed: " and the position from 0.
UnnamedName(i) == Chars("Unnamed: ") \o <<DigitChars[i]>>

\* The column names read from a row of header texts (<<>> for an empty cell).
HeaderNames(texts) ==
    [i \in DOMAIN texts |-> IF texts[i] = <<>> THEN UnnamedName(i) ELSE texts[i]]

\* pd.read_csv / pd.read_excel of well-formed content with the header in the
\* first row (header=0): the table with inferred dtypes.
ParsedFrame(content) ==
    DataFrame(HeaderNames(content.columns),
              [i \in DOMAIN content.columns |-> InferDtype(content.rows, i)],
              content.rows)

\* df.dropna(how='all'): the rows with at least one cell present, in order.
dropna_all(df) ==
    LET Present(row) == \E i \in DOMAIN row : ~IsNull(row[i])
    IN  [df EXCEPT !.rows = SelectSeq(df.rows, Present)]

(************************ main.py: clean_data_types **************************)

NUMERIC_HINTS == <<Chars("salary"), Chars("price"), Chars("cost"), Chars("age"),
                   Chars("rating"), Chars("score"), Chars("amount"), Chars("profit"),
                   Chars("sales")>>

\* The texts pandas parses as dates, with the day each one names.
DateTexts == {"2024-01-15", "2024-02-15"}
DayOfText(s) == IF s = "2024-01-15" THEN 45306 ELSE 45337

\* The day of 1970-01-01: an integer is read as nanoseconds since then.
UNIX_EPOCH_DAY == 25569

\* pd.to_numeric(errors='coerce').fillna(0) of one cell.
to_numeric_cell(cell) == IF cell.t = "num" THEN cell ELSE Num(0)

\* pd.to_datetime(errors='coerce') of one cell.
to_datetime_cell(cell) ==
    IF cell.t = "ts" THEN cell
    ELSE IF cell.t = "num" THEN Ts(UNIX_EPOCH_DAY)
    ELSE IF cell.t = "str" /\ cell.s \in DateTexts THEN Ts(DayOfText(cell.s))
    ELSE NaT

\* Column i of the frame rewritten cell by cell, with its new dtype.
MapColumn(df, i, F(_), dtype) ==
    [df EXCEPT !.dtypes[i] = dtype,
               !.rows = [k \in DOMAIN df.rows |-> [df.rows[k] EXCEPT ![i] = F(df.rows[k][i])]]]

\* The body of the loop for column i: the numeric heuristic, then the date one.
CleanColumn(df, i) ==
    LET name == lower(df.columns[i])
        df1 == IF \E h \in DOMAIN NUMERIC_HINTS : Contains(name, NUMERIC_HINTS[h])
               THEN MapColumn(df, i, to_numeric_cell, "num")
               ELSE df
    IN  IF Contains(name, Chars("date")) \/ Contains(name, Chars("time"))
        THEN MapColumn(df1, i, to_datetime_cell, "date")
        ELSE df1

RECURSIVE CleanFrom(_, _)
CleanFrom(df, i) ==
    IF i > Len(df.columns) THEN df ELSE CleanFrom(CleanColumn(df, i), i + 1)

clean_data_types(df) == CleanFrom(df, 1)

(************************ domain_models.py, sop_service.py *******************)

\* ChartRecommendation.chart_type
CHART_TYPES == {"bar", "line", "area", "pie", "scatter", "heatmap", "boxplot", "radar"}

\* DataBlueprint.domain
BLUEPRINT_DOMAINS == {"HR", "Sales", "Finance", "Inventory", "General"}

\* The reply of llm_service.chat is None or a text.  A text is a sequence of
\* tokens: the fences "```json" and "```", white space, prose, and JSON values.
\* A JSON value is [type |-> "array"] (any JSON that is not an object) or an
\* object [type |-> "object", complete, domain, recommended_charts,
\* summary_insight]; complete says that the other required fields
\* (primary_grain, numeric_columns, categorical_columns) are present and
\* well-typed.  A chart is [complete, title, chart_type, x_axis_col, y_axis_col,
\* reasoning]; complete says the same of its required text fields.
Tok(kind) == [tok |-> kind]
JsonTok(value) == [tok |-> "json", value |-> value]
Reply(text) == [is_none |-> FALSE, text |-> text]
NoneReply == [is_none |-> TRUE, text |-> <<>>]

\* raw_response.replace('```json', '').replace('```', '')
RemoveFences(text) ==
    LET NotFence(t) == t.tok \notin {"fence_json", "fence"}
    IN  SelectSeq(text, NotFence)

RECURSIVE LStripTokens(_)
LStripTokens(text) ==
    IF text # <<>> /\ Head(text).tok = "space" THEN LStripTokens(Tail(text)) ELSE text

RECURSIVE RStripTokens(_)
RStripTokens(text) ==
    IF text # <<>> /\ text[Len(text)].tok = "space"
    THEN RStripTokens(SubSeq(text, 1, Len(text) - 1))
    ELSE text

\* .strip()
StripTokens(text) == RStripTokens(LStripTokens(text))

\* json.loads: the text must be exactly one JSON value, with or without white
\* space around it.
json_loads(text) ==
    IF Len(StripTokens(text)) = 1 /\ StripTokens(text)[1].tok = "json"
    THEN [raised |-> FALSE, value |-> StripTokens(text)[1].value]
    ELSE [raised |-> TRUE, value |-> [type |-> "array"]]

\* pydantic's validation of one element of recommended_charts.
ChartValidates(c) == c.complete /\ c.chart_type \in CHART_TYPES

\* A plausible slip: the elements of recommended_charts are not validated.
BlueprintValidatesLenient(data) ==
    /\ data.type = "object"
    /\ data.complete
    /\ data.domain \in BLUEPRINT_DOMAINS

\* DataBlueprint(**data) raises unless data is a mapping with every required
\* field, a domain of the Literal, and only valid charts.
BlueprintValidates(data) ==
    /\ data.type = "object"
    /\ data.complete
    /\ data.domain \in BLUEPRINT_DOMAINS
    /\ \A i \in DOMAIN data.recommended_charts : ChartValidates(data.recommended_charts[i])

ChartRecommendation(c) ==
    [title |-> c.title, chart_type |-> c.chart_type, x_axis_col |-> c.x_axis_col,
     y_axis_col |-> c.y_axis_col, reasoning |-> c.reasoning]

DataBlueprint(data) ==
    [domain |-> data.domain,
     recommended_charts |->
        [i \in DOMAIN data.recommended_charts |-> ChartRecommendation(data.recommended_charts[i])],
     summary_insight |-> data.summary_insight]

_get_fallback_blueprint ==
    [domain |-> "General",
     recommended_charts |-> <<>>,
     summary_insight |-> "AI analysis failed. Using raw data view."]

\* The body of the try block: [raised, blueprint].
ParseAndValidate(reply) ==
    IF reply.is_none THEN [raised |-> TRUE, blueprint |-> _get_fallback_blueprint]
    ELSE LET loaded == json_loads(StripTokens(RemoveFences(reply.text)))
         IN  IF loaded.raised \/ ~BlueprintValidates(loaded.value)
             THEN [raised |-> TRUE, blueprint |-> _get_fallback_blueprint]
             ELSE [raised |-> FALSE, blueprint |-> DataBlueprint(loaded.value)]

\* A plausible slip: the parse is not guarded, and its exception leaves the function.
analyze_dataset_structure_unguarded(reply) == ParseAndValidate(reply)

\* try: parse and validate; except Exception: the fallback blueprint.
analyze_dataset_structure(reply) ==
    LET tried == ParseAndValidate(reply)
    IN  IF tried.raised
        THEN [raised |-> FALSE, blueprint |-> _get_fallback_blueprint]
        ELSE tried

(************************ main.py: calculate_chart_data **********************)

\* The cells of one column, row by row.
Column(df, col) == [k \in DOMAIN df.rows |-> df.rows[k][ColIndex(df, col)]]

\* The texts of the model in ascending (code point) order.
LABEL_ORDER == <<"2024-01-15", "2024-02-15", "Eng", "Ops", "Sales">>

\* The sort key of a cell among cells of its own type.
CellRank(cell) ==
    IF cell.t = "str" THEN CHOOSE i \in DOMAIN LABEL_ORDER : LABEL_ORDER[i] = cell.s
    ELSE IF cell.t = "num" THEN cell.n
    ELSE cell.day

Min2(a, b) == IF a <= b THEN a ELSE b

\* A plausible slip: nothing is cut off.
head_uncapped(s, n) == s

\* s.head(n)
head(s, n) == SubSeq(s, 1, Min2(n, Len(s)))

\* The distinct present values of a column in order of first appearance.
RECURSIVE Uniques(_, _)
Uniques(cells, seen) ==
    IF cells = <<>> THEN seen
    ELSE IF IsNull(Head(cells)) \/ \E i \in DOMAIN seen : seen[i] = Head(cells)
         THEN Uniques(Tail(cells), seen)
         ELSE Uniques(Tail(cells), Append(seen, Head(cells)))

\* The keys of a group-by: the distinct present values in ascending order.
RECURSIVE SortCells(_)
SortCells(S) ==
    IF S = {} THEN <<>>
    ELSE LET m == CHOOSE c \in S : \A d \in S : CellRank(c) <= CellRank(d)
         IN  <<m>> \o SortCells(S \ {m})

\* The sum of the numbers of ys in the rows whose x is key (NaN is skipped).
RECURSIVE SumWhere(_, _, _)
SumWhere(xs, ys, key) ==
    IF xs = <<>> THEN 0
    ELSE (IF Head(xs) = key /\ Head(ys).t = "num" THEN Head(ys).n ELSE 0)
         + SumWhere(Tail(xs), Tail(ys), key)

\* A plausible slip: the rows of a group are counted, not summed.
GroupCount(df, x, y) ==
    LET xs == Column(df, x)
        keys == SortCells(Range(Uniques(xs, <<>>)))
    IN  [i \in DOMAIN keys |->
            [x |-> keys[i], y |-> Num(Cardinality({k \in DOMAIN xs : xs[k] = keys[i]}))]]

\* df.groupby(x)[y].sum().reset_index(): one record per key, keys ascending.
GroupSum(df, x, y) ==
    LET xs == Column(df, x)
        ys == Column(df, y)
        keys == SortCells(Range(Uniques(xs, <<>>)))
    IN  [i \in DOMAIN keys |-> [x |-> keys[i], y |-> Num(SumWhere(xs, ys, keys[i]))]]

CountOf(cells, key) == Cardinality({k \in DOMAIN cells : cells[k] = key})

\* A record put into a sequence ordered by descending y, behind its equals.
RECURSIVE InsertDescending(_, _)
InsertDescending(sorted, e) ==
    IF sorted = <<>> THEN <<e>>
    ELSE IF Head(sorted).y.n >= e.y.n
         THEN <<Head(sorted)>> \o InsertDescending(Tail(sorted), e)
         ELSE <<e>> \o sorted

\* sort_values(ascending=False): descending, equal values in their given order.
RECURSIVE SortDescending(_, _)
SortDescending(records, sorted) ==
    IF records = <<>> THEN sorted
    ELSE SortDescending(Tail(records), InsertDescending(sorted, Head(records)))

\* df[x].value_counts().reset_index(): one record per present value with its
\* number of occurrences, most frequent first.
ValueCounts(df, x) ==
    LET xs == Column(df, x)
        keys == Uniques(xs, <<>>)
    IN  SortDescending([i \in DOMAIN keys |-> [x |-> keys[i], y |-> Num(CountOf(xs, keys[i]))]],
                       <<>>)

Raised == [raised |-> TRUE, data |-> <<>>]
Returned(data) == [raised |-> FALSE, data |-> data]

\* to_dict(orient='records') of the counts: a record holds one value per key,
\* so when x and y are one name the later column, the count, is what the
\* name holds (x and y of a record stand for the values under the two names).
CountRecords(counts, req) ==
    IF req.x_axis_col = req.y_axis_col
    THEN [i \in DOMAIN counts |-> [x |-> counts[i].y, y |-> counts[i].y]]
    ELSE counts

\* bar, pie: the sum of y per x for a numeric y, else the count of each x;
\* the first 10 records.
BarPieData(df, req) ==
    IF req.y_axis_col # <<>> /\ ~HasCol(df, req.y_axis_col) THEN Raised
    ELSE IF ~HasCol(df, req.x_axis_col) THEN Raised
    ELSE IF req.y_axis_col # <<>> /\ is_numeric_dtype(df, req.y_axis_col)
         THEN IF req.x_axis_col = req.y_axis_col
              THEN Raised   \* reset_index cannot insert the key beside itself
              ELSE Returned(head(GroupSum(df, req.x_axis_col, req.y_axis_col), 10))
         ELSE Returned(CountRecords(head(ValueCounts(df, req.x_axis_col), 10), req))

\* The month (12 * year + month - 1) of the days the model uses.
MonthOfDay(day) ==
    IF day = 45306 THEN 24288 ELSE IF day = 45337 THEN 24289 ELSE 23640

\* line, area: for a datetime x, the count of y in every month from the first
\* to the last one present (no record for a frame without rows; resample
\* raises on dates that are all NaT); empty for any other x.
LineAreaData(df, req) ==
    IF ~HasCol(df, req.x_axis_col) THEN Raised
    ELSE IF ~is_datetime64_any_dtype(df, req.x_axis_col) THEN Returned(<<>>)
    ELSE IF ~HasCol(df, req.y_axis_col) \/ req.x_axis_col = req.y_axis_col THEN Raised
    ELSE LET xs == Column(df, req.x_axis_col)
             ys == Column(df, req.y_axis_col)
             months == {MonthOfDay(xs[k].day) : k \in {j \in DOMAIN xs : xs[j].t = "ts"}}
         IN  IF xs = <<>> THEN Returned(<<>>)
             ELSE IF months = {} THEN Raised
             ELSE LET lo == CHOOSE m \in months : \A n \in months : m <= n
                      hi == CHOOSE m \in months : \A n \in months : m >= n
                  IN  Returned([i \in 1..(hi - lo + 1) |->
                        [x |-> lo + i - 1,
                         y |-> Num(Cardinality({k \in DOMAIN xs :
                                    /\ xs[k].t = "ts"
                                    /\ MonthOfDay(xs[k].day) = lo + i - 1
                                    /\ ~IsNull(ys[k])}))]])

\* df.select_dtypes(include=['number']).columns
NumericColumns(df) ==
    LET idx == SelectSeq([i \in DOMAIN df.columns |-> i], LAMBDA i : df.dtypes[i] = "num")
    IN  [k \in DOMAIN idx |-> df.columns[idx[k]]]

\* heatmap: one cell per ordered pair of the first 6 numeric columns (the
\* correlation itself, a real number, is not modelled).
HeatmapData(df) ==
    LET cols == head(NumericColumns(df), 6)
        n == Len(cols)
    IN  IF n < 2 THEN Returned(<<>>)
        ELSE Returned([i \in 1..(n * n) |->
                [x |-> cols[((i - 1) \div n) + 1], y |-> cols[((i - 1) % n) + 1]]])

\* A plausible slip: every bar starts at zero.
FloatingBarsFromZero(agg, cumulative) ==
    [i \in DOMAIN agg |->
        [name |-> agg[i].x, value |-> <<0, agg[i].y.n>>,
         displayValue |-> agg[i].y.n, isNegative |-> agg[i].y.n < 0]]

\* The floating bars of the given sums: each starts where the previous ended.
RECURSIVE FloatingBars(_, _)
FloatingBars(agg, cumulative) ==
    IF agg = <<>> THEN <<>>
    ELSE LET val == Head(agg).y.n
         IN  <<[name |-> Head(agg).x, value |-> <<cumulative, cumulative + val>>,
                displayValue |-> val, isNegative |-> val < 0]>>
             \o FloatingBars(Tail(agg), cumulative + val)

\* waterfall: the 6 largest sums per x, as floating bars.
WaterfallData(df, req) ==
    IF ~HasCol(df, req.y_axis_col) THEN Raised
    ELSE IF ~is_numeric_dtype(df, req.y_axis_col) THEN Returned(<<>>)
    ELSE IF ~HasCol(df, req.x_axis_col) \/ req.x_axis_col = req.y_axis_col THEN Raised
    ELSE Returned(FloatingBars(
            head(SortDescending(GroupSum(df, req.x_axis_col, req.y_axis_col), <<>>), 6), 0))

\* The statistics of one boxplot group (the quartiles, real numbers, are not
\* modelled): none for a group of fewer than 2 values.
BoxplotGroup(df, req, name) ==
    LET xs == Column(df, req.x_axis_col)
        ys == Column(df, req.y_axis_col)
        rows == {k \in DOMAIN xs : xs[k] = name}
        nums == {ys[k].n : k \in {j \in rows : ys[j].t = "num"}}
    IN  IF Cardinality(rows) < 2 THEN <<>>
        ELSE <<[name |-> name, count |-> Cardinality(rows),
                min |-> IF nums = {} THEN NaN
                        ELSE Num(CHOOSE m \in nums : \A n \in nums : m <= n),
                max |-> IF nums = {} THEN NaN
                        ELSE Num(CHOOSE m \in nums : \A n \in nums : m >= n)]>>

RECURSIVE BoxplotGroups(_, _, _)
BoxplotGroups(df, req, groups) ==
    IF groups = <<>> THEN <<>>
    ELSE BoxplotGroup(df, req, Head(groups).x) \o BoxplotGroups(df, req, Tail(groups))

\* boxplot: the 5 most frequent x values, each with at least 2 values of y.
BoxplotData(df, req) ==
    IF ~HasCol(df, req.y_axis_col) THEN Raised
    ELSE IF ~is_numeric_dtype(df, req.y_axis_col) THEN Returned(<<>>)
    ELSE IF ~HasCol(df, req.x_axis_col) THEN Raised
    ELSE Returned(BoxplotGroups(df, req, head(ValueCounts(df, req.x_axis_col), 5)))

\* calculate_chart_data(df, req): [raised, data]; raised stands for the
\* exception (a KeyError of a column the frame does not have) leaving the call.
calculate_chart_data(df, req) ==
    IF req.chart_type \in {"bar", "pie"} THEN BarPieData(df, req)
    ELSE IF req.chart_type \in {"line", "area"} THEN LineAreaData(df, req)
    ELSE IF req.chart_type = "heatmap" THEN HeatmapData(df)
    ELSE IF req.chart_type = "waterfall" THEN WaterfallData(df, req)
    ELSE IF req.chart_type = "boxplot" THEN BoxplotData(df, req)
    ELSE Returned(<<>>)

(************************ main.py: the /analyze handler **********************)

\* An upload is [filename, content]; content is [format, columns, rows] with
\* format "csv" (text read_csv parses), "excel" (a workbook read_excel parses)
\* or "garbage" (bytes neither parser reads).
Upload(filename, format, columns, rows) ==
    [filename |-> filename,
     content |-> [format |-> format, columns |-> columns, rows |-> rows]]

\* pd.read_csv(io.BytesIO(contents))
read_csv(content) ==
    IF content.format = "csv"
    THEN [raised |-> FALSE, parser |-> "read_csv", df |-> ParsedFrame(content)]
    ELSE [raised |-> TRUE, parser |-> "read_csv",
          error |-> [type |-> "ParserError", text |-> "Error tokenizing data"]]

\* pd.read_excel(io.BytesIO(contents))
read_excel(content) ==
    IF content.format = "excel"
    THEN [raised |-> FALSE, parser |-> "read_excel", df |-> ParsedFrame(content)]
    ELSE [raised |-> TRUE, parser |-> "read_excel",
          error |-> [type |-> "ValueError", text |-> "Excel file format cannot be determined"]]

\* raise HTTPException(status_code=..., detail=...)
HTTPException(status_code, detail) ==
    [type |-> "HTTPException", status_code |-> status_code, detail |-> detail,
     text |-> ""]

\* 1. Load Data: the parser is chosen by the end of the file name.
LoadData(file) ==
    IF endswith(file.filename, Chars(".csv")) THEN read_csv(file.content)
    ELSE IF \/ endswith(file.filename, Chars(".xls"))
            \/ endswith(file.filename, Chars(".xlsx"))
         THEN read_excel(file.content)
         ELSE [raised |-> TRUE, parser |-> "none",
               error |-> HTTPException(400, "Unsupported file format")]

\* str(e): an HTTPException prints as "<status_code>: <detail>".
StrOfError(e) ==
    IF e.type = "HTTPException" THEN ToString(e.status_code) \o ": " \o e.detail
    ELSE e.text

\* except Exception as e: raise HTTPException(status_code=500, detail=str(e))
ErrorResponse(e) == [status |-> 500, detail |-> StrOfError(e)]

\* A plausible slip: the ids count from 1.
ChartEntryFromOne(charts, chart_req, data) ==
    [id |-> Len(charts) + 1, title |-> chart_req.title, type |-> chart_req.chart_type,
     data |-> data, insight |-> chart_req.reasoning,
     x_key |-> chart_req.x_axis_col, y_key |-> chart_req.y_axis_col]

\* The entry appended for a chart with data; its id counts the entries so far.
ChartEntry(charts, chart_req, data) ==
    [id |-> Len(charts), title |-> chart_req.title, type |-> chart_req.chart_type,
     data |-> data, insight |-> chart_req.reasoning,
     x_key |-> chart_req.x_axis_col, y_key |-> chart_req.y_axis_col]

\* The body of the loop over blueprint.recommended_charts.  acc is [charts,
\* attempts, raised]: precomputed_charts, what became of every chart request
\* that was tried, and whether an exception left the loop.
ChartStep(df, chart_req, acc) ==
    LET out == calculate_chart_data(df, chart_req)
    IN  IF out.raised
        THEN [acc EXCEPT !.attempts = Append(@, "raised")]   \* except: print only
        ELSE IF out.data # <<>>
             THEN [acc EXCEPT !.charts = Append(@, ChartEntry(acc.charts, chart_req, out.data)),
                              !.attempts = Append(@, "added")]
             ELSE [acc EXCEPT !.attempts = Append(@, "empty")]

RECURSIVE ChartLoop(_, _, _)
ChartLoop(df, chart_reqs, acc) ==
    IF chart_reqs = <<>> \/ acc.raised THEN acc
    ELSE ChartLoop(df, Tail(chart_reqs), ChartStep(df, Head(chart_reqs), acc))

\* A plausible slip: one fixed session id.
uuid4_fixed(used) == {1}

\* The session ids there are.
Uuids == 1..MaxAnalyses

\* str(uuid.uuid4()): an id that was not produced before.
uuid4(used) == Uuids \ used

\* A plausible slip: the store keeps the latest session only.
StorePutLatest(store, session_id, df) == [k \in {session_id} |-> df]

\* SESSION_STORE[session_id] = df
StorePut(store, session_id, df) ==
    [k \in (DOMAIN store) \cup {session_id} |-> IF k = session_id THEN df ELSE store[k]]

\* json.dumps of a cell: NaN, NaT and Timestamp are refused.
JsonCell(cell) == cell.t \in {"num", "str"}

JsonRows(rows) == \A k \in DOMAIN rows : \A i \in DOMAIN rows[k] : JsonCell(rows[k][i])

JsonChart(chart) ==
    \A k \in DOMAIN chart.data :
        /\ chart.type \in {"bar", "pie"} => JsonCell(chart.data[k].x)
        /\ chart.type = "boxplot" =>
              JsonCell(chart.data[k].min) /\ JsonCell(chart.data[k].max)

\* JSONResponse(content=...) renders the content at construction.
JsonSerializable(content) ==
    /\ JsonRows(content.data)
    /\ \A i \in DOMAIN content.charts : JsonChart(content.charts[i])

\* df.select_dtypes(include=['object']).columns
ObjectColumns(df) ==
    LET idx == SelectSeq([i \in DOMAIN df.columns |-> i], LAMBDA i : df.dtypes[i] = "obj")
    IN  [k \in DOMAIN idx |-> df.columns[idx[k]]]

\* 6. and 7.: the content of the response.
ResponseContent(session_id, file, df, blueprint, charts) ==
    [session_id |-> session_id,
     filename |-> file.filename,
     stats |-> [rowCount |-> NRows(df), columnCount |-> Len(df.columns),
                numericColumns |-> NumericColumns(df),
                categoryColumns |-> ObjectColumns(df)],
     data |-> head(df.rows, 100),
     cleaning_log |-> <<[entry |-> "Processed by Python (Stateful Mode)"],
                        [entry |-> "Rows", rows |-> NRows(df)],
                        [entry |-> "Domain", domain |-> blueprint.domain]>>,
     ai_narrative |-> [title |-> blueprint.domain, summary |-> <<blueprint.summary_insight>>],
     blueprint |-> blueprint,
     charts |-> charts]

(************************ the service calls **********************************)

\* The slots of /analyze requests that can be in flight together.
Slots == {"r1", "r2"}

NoRequest == [pc |-> "idle"]
Nothing == [kind |-> "none"]

\* The service before any request: SESSION_STORE = {}.
ServerInit ==
    /\ SESSION_STORE = <<>>
    /\ inflight = [r \in Slots |-> NoRequest]
    /\ issued = {}
    /\ returned = {}
    /\ started = 0
    /\ last = Nothing

server_vars == <<SESSION_STORE, inflight, issued, returned, started, last>>
call_vars == <<op, arg, res>>

\* No service call has been made.
NoCall == op = "none" /\ arg = Nothing /\ res = Nothing

BoundedSeq(S, n) == UNION {[1..k -> S] : k \in 0..n}

\* A service function f is applied to the input chosen in the initial state.
Apply(name, result) ==
    /\ op = "none"
    /\ op' = name
    /\ res' = result
    /\ UNCHANGED <<arg, server_vars>>

(************************ header standardization, checked *******************)

HeaderAlphabet == {"a", "B", " ", "-", "_", CapitalIDot, CombiningDot}

HeaderStrings ==
    BoundedSeq(HeaderAlphabet, MaxLen) \cup {Chars("Total Sales"), Chars("total_sales")}

InitHeader == ServerInit /\ op = "none" /\ arg \in HeaderStrings /\ res = Nothing

StandardizeHeader ==
    Apply("_standardize_header", [kind |-> "header", value |-> _standardize_header(arg)])

\* The result of one standardization is standardized again.
StandardizeAgain ==
    /\ op = "_standardize_header"
    /\ op' = "_standardize_header twice"
    /\ res' = [kind |-> "header", value |-> _standardize_header(res.value),
               once |-> res.value]
    /\ UNCHANGED <<arg, server_vars>>

NextHeader == StandardizeHeader \/ StandardizeAgain

SpecHeader == InitHeader /\ [][NextHeader]_vars

(************************ domain detection, checked *************************)

SampleHeaders == {
    Chars("Net Profit"), Chars("Team Role"), Chars("Class Score"),
    Chars("Salary"), Chars("COST"), Chars("Name") }

InitDetect ==
    ServerInit /\ op = "none" /\ arg \in BoundedSeq(SampleHeaders, MaxHeaders) /\ res = Nothing

Detect == Apply("detect", [kind |-> "domain", value |-> detect(arg)])

\* detect_from_dataframe hands the column names of the frame to detect.
DetectFromDataframe ==
    Apply("detect_from_dataframe", [kind |-> "domain", value |-> detect(arg)])

NextDetect == Detect \/ DetectFromDataframe

SpecDetect == InitDetect /\ [][NextDetect]_vars

(************************ serial dates, checked ******************************)

\* The days (since 1899-12-30) on which a call may be made: 2023 and 2026.
NowDays == {45000, 46325}

SerialWindow(bound) == ((bound - Margin) * Scale)..((bound + Margin) * Scale)

DateInputs ==
    LET units == SerialWindow(SERIAL_MIN) \cup SerialWindow(SERIAL_MAX)
                 \cup {0, Scale, -(SERIAL_MIN + 1) * Scale, 46000 * Scale}
    IN  {[kind |-> "float", units |-> u] : u \in units}
        \cup {[kind |-> "int", units |-> u] : u \in {x \in units : x % Scale = 0}}
        \cup {[kind |-> "nan"], [kind |-> "none"]}
        \cup {[kind |-> "str", parses |-> TRUE, days |-> 45292],
              [kind |-> "str", parses |-> FALSE, days |-> 0]}
        \cup {[kind |-> "datetime", days |-> 45292],
              [kind |-> "timestamp", days |-> 45292]}

InitDate == ServerInit /\ op = "none" /\ arg \in DateInputs /\ res = Nothing

ConvertExcelDate == Apply("_convert_excel_date", _convert_excel_date(arg))

ConvertDate == \E now \in NowDays : Apply("_convert_date", _convert_date(arg, now))

NextDate == ConvertExcelDate \/ ConvertDate

SpecDate == InitDate /\ [][NextDate]_vars

(************************ claims: C7, C8, C9 *********************************)

\* The reference score of the d-th domain: the number of (keyword, header) pairs
\* with the keyword inside the lower-cased header.
RefScore(d, headers) ==
    Cardinality({p \in (DOMAIN DOMAIN_PATTERNS[d].patterns) \X (DOMAIN headers) :
                    Contains(lower(headers[p[2]]), DOMAIN_PATTERNS[d].patterns[p[1]])})

RefMaxScore(headers) ==
    CHOOSE m \in {RefScore(d, headers) : d \in DOMAIN DOMAIN_PATTERNS} :
        \A d \in DOMAIN DOMAIN_PATTERNS : RefScore(d, headers) <= m

RefDomain(headers) ==
    IF headers = <<>> \/ RefMaxScore(headers) < 2 THEN "general"
    ELSE LET first == CHOOSE d \in DOMAIN DOMAIN_PATTERNS :
                        /\ RefScore(d, headers) = RefMaxScore(headers)
                        /\ \A e \in 1..(d - 1) : RefScore(e, headers) < RefMaxScore(headers)
         IN  <<"finance", "hr", "education", "biology">>[first]

\* C7: detect returns, for every header list, the label of the reference rule:
\* "general" without headers or with a maximum score below 2, otherwise the
\* domain of maximum score, the first of finance, hr, education, biology on a tie.
C7_DetectIsReferenceRule ==
    op \in {"detect", "detect_from_dataframe"} => res.value = RefDomain(arg)

\* C7 witness: two domains tie at a maximum score of at least 2 and the one
\* declared first is returned.
C7_TieWitness ==
    /\ op = "detect"
    /\ \E d \in DOMAIN DOMAIN_PATTERNS : \E e \in DOMAIN DOMAIN_PATTERNS :
          /\ d < e
          /\ RefScore(d, arg) = RefMaxScore(arg)
          /\ RefScore(e, arg) = RefMaxScore(arg)
          /\ RefMaxScore(arg) >= 2
          /\ res.value = DOMAIN_PATTERNS[d].domain

\* The result is the date 1899-12-30 plus v days (the day v falls on).
IsSerialDateOf(result, value) ==
    /\ result.kind \in {"datetime", "timestamp"}
    /\ result.days = value.units \div Scale

\* C8: both conversions turn a number v (an int or a float other than NaN)
\* into the date 1899-12-30 plus v days exactly when 20000 < v < 100000 (the
\* bounds themselves are not converted).
C8_SerialBoundsExclusive ==
    (op \in {"_convert_excel_date", "_convert_date"} /\ IsNumber(arg) /\ ~isna(arg)) =>
        (IsSerialDateOf(res, arg) <=>
            (20000 * Scale < arg.units /\ arg.units < 100000 * Scale))

\* C8 witness: 20001 and 99999 were converted, 20000 and 100000 were not.
C8_BoundaryWitness ==
    /\ op \in {"_convert_excel_date", "_convert_date"}
    /\ IsNumber(arg)
    /\ ~isna(arg)
    /\ \/ arg.units = 20001 * Scale /\ res.kind \in {"datetime", "timestamp"} /\ res.days = 20001
       \/ arg.units = 99999 * Scale /\ res.kind \in {"datetime", "timestamp"} /\ res.days = 99999
       \/ arg.units = 20000 * Scale /\ ~IsSerialDateOf(res, arg)
       \/ arg.units = 100000 * Scale /\ ~IsSerialDateOf(res, arg)

\* C9: _standardize_header is idempotent: standardizing its own result
\* changes nothing.
C9_StandardizeIdempotent ==
    op = "_standardize_header twice" => res.value = res.once

(************************ the service, its requests **************************)

Department == Chars("Department")
Salary == Chars("Salary")
Region == Chars("Region")
Sales == Chars("Sales")

\* The uploads of the model.
HrCsv ==
    Upload(Chars("hr.csv"), "csv", <<Department, Salary>>,
           << <<Str("Eng"), Num(100)>>, <<Str("Eng"), Num(200)>>, <<Str("Sales"), Num(50)>> >>)
OpsCsv ==
    Upload(Chars("ops.csv"), "csv", <<Region, Sales>>,
           << <<Str("Ops"), Num(5)>>, <<Str("Eng"), Num(7)>> >>)
\* A workbook with a date column and a row that is empty throughout.
LogXlsx ==
    Upload(Chars("log.xlsx"), "excel", <<Chars("Date"), Sales>>,
           << <<Str("2024-01-15"), Num(10)>>, <<NaN, NaN>>, <<Str("2024-02-15"), Num(20)>> >>)
NotesTxt ==
    Upload(Chars("notes.txt"), "csv", <<Department, Salary>>, << <<Str("Eng"), Num(1)>> >>)
Files == {HrCsv, OpsCsv, LogXlsx, NotesTxt}

Chart(type, x, y) ==
    [complete |-> TRUE, title |-> "chart", chart_type |-> type, x_axis_col |-> x,
     y_axis_col |-> y, reasoning |-> "because"]

\* The JSON values of the model.
ChartsJson ==
    [type |-> "object", complete |-> TRUE, domain |-> "HR",
     recommended_charts |-> <<Chart("bar", Department, Salary), Chart("bar", Region, Sales),
                              Chart("scatter", Department, Salary),
                              Chart("pie", Department, Salary)>>,
     summary_insight |-> "Salaries by department."]
NoChartsJson ==
    [type |-> "object", complete |-> TRUE, domain |-> "General",
     recommended_charts |-> <<>>, summary_insight |-> "A small table."]
WaterfallJson ==
    [type |-> "object", complete |-> TRUE, domain |-> "Finance",
     recommended_charts |-> <<Chart("bar", Department, Salary),
                              Chart("waterfall", Department, Salary)>>,
     summary_insight |-> "Cumulative salaries."]
BadDomainJson ==
    [type |-> "object", complete |-> TRUE, domain |-> "Marketing",
     recommended_charts |-> <<>>, summary_insight |-> "Campaigns."]
IncompleteJson ==
    [type |-> "object", complete |-> FALSE, domain |-> "HR",
     recommended_charts |-> <<>>, summary_insight |-> "No grain."]
ArrayJson == [type |-> "array"]

\* The replies of the recommendation collaborator to /analyze.
AnalyzeReplies == {
    Reply(<<Tok("fence_json"), JsonTok(ChartsJson), Tok("fence")>>),
    Reply(<<Tok("prose")>>) }

\* await file.read(): the upload of a request has arrived.
AnalyzeReceive(r) ==
    /\ inflight[r].pc = "idle"
    /\ started < MaxAnalyses
    /\ \E file \in Files :
          inflight' = [inflight EXCEPT ![r] = [pc |-> "received", file |-> file]]
    /\ started' = started + 1
    /\ UNCHANGED <<SESSION_STORE, issued, returned, last, call_vars>>

\* The state of a request that ended in the handler's except clause.
Failed(file, reply, attempts, e) ==
    [pc |-> "done", file |-> file, reply |-> reply, attempts |-> attempts,
     stored |-> FALSE, response |-> ErrorResponse(e)]

\* 1. to 4.: load, clean, blueprint, charts.
Computed(file, reply) ==
    LET loaded == LoadData(file)
    IN  IF loaded.raised THEN Failed(file, reply, <<>>, loaded.error)
        ELSE LET df == clean_data_types(dropna_all(loaded.df))
                 sop == analyze_dataset_structure(reply)
             IN  IF sop.raised
                 THEN Failed(file, reply, <<>>,
                             [type |-> "ValidationError", text |-> "SOP parsing"])
                 ELSE LET loop == ChartLoop(df, sop.blueprint.recommended_charts,
                                            [charts |-> <<>>, attempts |-> <<>>,
                                             raised |-> FALSE])
                      IN  IF loop.raised
                          THEN Failed(file, reply, loop.attempts,
                                      [type |-> "KeyError", text |-> "chart column"])
                          ELSE [pc |-> "computed", file |-> file, reply |-> reply,
                                df |-> df, blueprint |-> sop.blueprint,
                                charts |-> loop.charts, attempts |-> loop.attempts]

\* 6. and 7.: the response is built and rendered; a content json.dumps refuses
\* ends in the except clause like any other exception.
Responded(c, session_id) ==
    LET content == ResponseContent(session_id, c.file, c.df, c.blueprint, c.charts)
    IN  [pc |-> "done", file |-> c.file, reply |-> c.reply, attempts |-> c.attempts,
         stored |-> TRUE, session_id |-> session_id,
         response |-> IF JsonSerializable(content)
                      THEN [status |-> 200, content |-> content]
                      ELSE ErrorResponse([type |-> "ValueError",
                                          text |-> "not JSON serializable"])]

\* The handler from the arrival of the upload to its response: it runs without
\* awaiting, so no other request is served in between.  reply is what the
\* recommendation collaborator answers to this request.
AnalyzeRun(r) ==
    /\ inflight[r].pc = "received"
    /\ \E reply \in AnalyzeReplies :
          LET c == Computed(inflight[r].file, reply)
          IN  IF c.pc = "done"
              THEN /\ inflight' = [inflight EXCEPT ![r] = c]
                   /\ UNCHANGED <<SESSION_STORE, issued, returned>>
              ELSE \E session_id \in uuid4(issued) :
                      LET done == Responded(c, session_id)
                      IN  /\ SESSION_STORE' = StorePut(SESSION_STORE, session_id, c.df)
                          /\ issued' = issued \cup {session_id}
                          /\ inflight' = [inflight EXCEPT ![r] = done]
                          /\ returned' = IF done.response.status = 200
                                         THEN returned \cup {session_id}
                                         ELSE returned
    /\ UNCHANGED <<started, last, call_vars>>

\* The response was sent; the slot serves the next request.
AnalyzeClose(r) ==
    /\ inflight[r].pc = "done"
    /\ inflight' = [inflight EXCEPT ![r] = NoRequest]
    /\ UNCHANGED <<SESSION_STORE, issued, returned, started, last, call_vars>>

\* df.iloc[start:end] for start, end >= 0
iloc(rows, start, end) == SubSeq(rows, start + 1, Min2(end, Len(rows)))

\* GET /data.  The function returns the page; the framework then encodes it
\* (jsonable_encoder writes a Timestamp and a NaT by their isoformat) and
\* renders it, which fails for a NaN: that page is answered 500.
get_data_page(session_id, page, limit) ==
    IF session_id \notin DOMAIN SESSION_STORE
    THEN [kind |-> "data", session_id |-> session_id, status |-> 404,
          detail |-> "Session expired or not found."]
    ELSE LET df == SESSION_STORE[session_id]
             start == (page - 1) * limit
             end == start + limit
             paginated_data == iloc(df.rows, start, end)
         IN  IF \A k \in DOMAIN paginated_data : \A i \in DOMAIN paginated_data[k] :
                    paginated_data[k][i] # NaN
             THEN [kind |-> "data", session_id |-> session_id, status |-> 200,
                   page |-> page, limit |-> limit, total_rows |-> NRows(df),
                   data |-> paginated_data]
             ELSE [kind |-> "data", session_id |-> session_id, status |-> 500,
                   detail |-> "Internal Server Error"]

\* The page sizes /data is asked with.
PageSizes == {2}

GetDataPage ==
    /\ \E session_id \in Uuids : \E page \in 1..MaxPage : \E limit \in PageSizes :
          last' = get_data_page(session_id, page, limit)
    /\ UNCHANGED <<SESSION_STORE, inflight, issued, returned, started, call_vars>>

\* POST /chat: the answer is made from the stored frame (df.describe, df.columns);
\* llm_service.chat returns a text whatever happens.
chat_with_data(session_id) ==
    IF session_id \notin DOMAIN SESSION_STORE
    THEN [kind |-> "chat", session_id |-> session_id, status |-> 404,
          detail |-> "Session expired. Please re-upload."]
    ELSE [kind |-> "chat", session_id |-> session_id, status |-> 200,
          about |-> SESSION_STORE[session_id]]

ChatWithData ==
    /\ \E session_id \in Uuids : last' = chat_with_data(session_id)
    /\ UNCHANGED <<SESSION_STORE, inflight, issued, returned, started, call_vars>>

\* GET /health
health_check ==
    [kind |-> "health", status |-> 200, sessions_active |-> Cardinality(DOMAIN SESSION_STORE)]

HealthCheck ==
    /\ last' = health_check
    /\ UNCHANGED <<SESSION_STORE, inflight, issued, returned, started, call_vars>>

Init == ServerInit /\ NoCall

Next ==
    \/ \E r \in Slots : AnalyzeReceive(r)
    \/ \E r \in Slots : AnalyzeRun(r)
    \/ \E r \in Slots : AnalyzeClose(r)
    \/ GetDataPage
    \/ ChatWithData
    \/ HealthCheck

Spec == Init /\ [][Next]_vars

(************************ services/cleaner.py: clean **************************)

\* file_path.split('.')[-1]: the text after the last "." (all of it without one).
RECURSIVE AfterLastDot(_, _)
AfterLastDot(s, i) ==
    IF i = 0 THEN s
    ELSE IF s[i] = "." THEN SubSeq(s, i + 1, Len(s))
    ELSE AfterLastDot(s, i - 1)

\* ext = file_path.split('.')[-1].lower()
ExtOf(file_path) == lower(AfterLastDot(file_path, Len(file_path)))

\* pd.read_excel(file_path, header=None): every row of the sheet as data; the
\* first row of content is its row of header texts.
RawRows(content) ==
    <<[i \in DOMAIN content.columns |->
          IF content.columns[i] = <<>> THEN NaN ELSE Str(content.columns[i])]>>
        \o content.rows

\* row.notna().sum()
NonEmpty(row) == Cardinality({i \in DOMAIN row : ~IsNull(row[i])})

\* The loop from row i on over range(min(5, len(raw_df))): the index of the
\* first row with 3 non-empty cells or more, 0 when there is none.
RECURSIVE FindHeaderRow(_, _)
FindHeaderRow(raw_df, i) ==
    IF i >= Min2(5, Len(raw_df)) THEN 0
    ELSE IF NonEmpty(raw_df[i + 1]) >= 3 THEN i
    ELSE FindHeaderRow(raw_df, i + 1)

\* pd.read_excel(file_path, header=header_row): the names from that row, the
\* rows below it as data (the cells of a header row are texts or empty).
ReadWithHeader(raw_df, header_row) ==
    LET names == HeaderNames([i \in DOMAIN raw_df[header_row + 1] |->
                     IF IsNull(raw_df[header_row + 1][i]) THEN <<>>
                     ELSE raw_df[header_row + 1][i].s])
        rows == SubSeq(raw_df, header_row + 2, Len(raw_df))
    IN  DataFrame(names, [i \in DOMAIN names |-> InferDtype(rows, i)], rows)

\* df.loc[:, ~df.columns.astype(str).str.contains('Unnamed|__EMPTY')]
DropUnnamed(df) ==
    LET keep == SelectSeq([i \in DOMAIN df.columns |-> i], LAMBDA i :
                    /\ ~Contains(df.columns[i], Chars("Unnamed"))
                    /\ ~Contains(df.columns[i], Chars("__EMPTY")))
    IN  DataFrame([k \in DOMAIN keep |-> df.columns[keep[k]]],
                  [k \in DOMAIN keep |-> df.dtypes[keep[k]]],
                  [r \in DOMAIN df.rows |-> [k \in DOMAIN keep |-> df.rows[r][keep[k]]]])

\* df[col].apply(self._convert_excel_date) on one cell
ExcelDateCell(cell) ==
    LET value == IF cell.t = "num" THEN [kind |-> "int", units |-> cell.n * Scale]
                 ELSE IF IsNull(cell) THEN [kind |-> "nan"]
                 ELSE [kind |-> "str"]
        out == _convert_excel_date(value)
    IN  IF out.kind = "timestamp" THEN Ts(out.days) ELSE cell

\* The dtype of a column after the conversion: datetime when a timestamp is
\* all it holds besides missing cells, object when timestamps stand among
\* other values, unchanged when nothing was converted.
DateDtype(cells, dtype) ==
    IF \A k \in DOMAIN cells : cells[k].t # "ts" THEN dtype
    ELSE IF \A k \in DOMAIN cells : cells[k].t \in {"ts", "nan", "nat"} THEN "date"
    ELSE "obj"

\* Convert Excel serial dates: the columns with 'date' in their lower-cased
\* name.  In a column that becomes datetime64 the missing cells are NaT.
ConvertSerialDates(df) ==
    LET IsDateCol(i) == Contains(lower(df.columns[i]), Chars("date"))
        applied == [r \in DOMAIN df.rows |-> [i \in DOMAIN df.columns |->
                       IF IsDateCol(i) THEN ExcelDateCell(df.rows[r][i]) ELSE df.rows[r][i]]]
        dtypes == [i \in DOMAIN df.columns |->
                      IF IsDateCol(i)
                      THEN DateDtype([r \in DOMAIN applied |-> applied[r][i]], df.dtypes[i])
                      ELSE df.dtypes[i]]
        rows == [r \in DOMAIN applied |-> [i \in DOMAIN df.columns |->
                    IF IsDateCol(i) /\ dtypes[i] = "date" /\ IsNull(applied[r][i])
                    THEN NaT ELSE applied[r][i]]]
    IN  DataFrame(df.columns, dtypes, rows)

\* _parse_excel_smart: the header row is searched among the first 5 rows, the
\* sheet is read again under it, unnamed columns are dropped and the serial
\* numbers of the date columns become timestamps.
_parse_excel_smart(content) ==
    LET read == read_excel(content)
        header_row == FindHeaderRow(RawRows(content), 0)
    IN  IF read.raised THEN read
        ELSE [raised |-> FALSE, parser |-> "_parse_excel_smart",
              header_row |-> header_row,
              df |-> ConvertSerialDates(DropUnnamed(
                         ReadWithHeader(RawRows(content), header_row)))]

\* Parse file: read_csv for the extension csv, _parse_excel_smart for every other one.
ParseFile(file) ==
    IF ExtOf(file.filename) = Chars("csv")
    THEN read_csv(file.content)
    ELSE _parse_excel_smart(file.content)

\* DOMAIN_RULES: the rule names of every domain.
DOMAIN_RULES ==
    [finance |-> <<"remove_currency_symbols", "convert_percentages", "handle_nulls",
                   "trim_whitespace">>,
     hr |-> <<"normalize_names", "convert_dates", "handle_nulls", "trim_whitespace">>,
     general |-> <<"handle_nulls", "trim_whitespace">>]

\* self.DOMAIN_RULES.get(domain, self.DOMAIN_RULES['general'])
RulesFor(domain) ==
    IF domain \in DOMAIN DOMAIN_RULES THEN DOMAIN_RULES[domain] ELSE DOMAIN_RULES["general"]

DigitSet == Range(DigitChars)

\* The number a text of digits writes.
RECURSIVE DecimalValue(_)
DecimalValue(s) ==
    IF s = <<>> THEN 0
    ELSE 10 * DecimalValue(SubSeq(s, 1, Len(s) - 1))
         + (CHOOSE d \in 0..9 : DigitChars[d + 1] = s[Len(s)])

\* str(timestamp) of the days the model uses.
TimestampText(day) ==
    IF day = 45000 THEN Chars("2023-03-15 00:00:00")
    ELSE IF day = 45306 THEN Chars("2024-01-15 00:00:00")
    ELSE Chars("2024-02-15 00:00:00")

\* astype(str) of a cell of an object column: a missing cell becomes the text "nan".
astype_str(cell) ==
    IF cell.t = "str" THEN cell.s
    ELSE IF cell.t = "num" THEN Chars(ToString(cell.n))
    ELSE IF cell.t = "ts" THEN TimestampText(cell.day)
    ELSE Chars("nan")

\* astype(float) of a text: [raised, cell].  "nan" is NaN, digits are their
\* number, any other text raises ValueError (the texts of the model have no
\* decimal point or sign).
float_of(s) ==
    IF s = Chars("nan") THEN [raised |-> FALSE, cell |-> NaN]
    ELSE IF s # <<>> /\ \A i \in DOMAIN s : s[i] \in DigitSet
         THEN [raised |-> FALSE, cell |-> Num(DecimalValue(s))]
         ELSE [raised |-> TRUE, cell |-> NaN]

\* str.match(r'^[\$...][\d,\.]+$') (of the currency symbols the model has "$")
IsCurrencyText(s) ==
    /\ Len(s) >= 2
    /\ s[1] = "$"
    /\ \A i \in 2..Len(s) : s[i] \in DigitSet \cup {",", "."}

\* str.match(r'^\d+\.?\d*%$')
IsPercentText(s) ==
    /\ Len(s) >= 2
    /\ s[Len(s)] = "%"
    /\ s[1] \in DigitSet
    /\ \A i \in 1..(Len(s) - 1) : s[i] \in DigitSet \cup {"."}
    /\ Cardinality({i \in 1..(Len(s) - 1) : s[i] = "."}) <= 1

RemoveChars(s, chars) == SelectSeq(s, LAMBDA c : c \notin chars)

\* The indices of the columns of df.select_dtypes(include=['object']).
ObjectIndices(df) ==
    SelectSeq([i \in DOMAIN df.columns |-> i], LAMBDA i : df.dtypes[i] = "obj")

\* .str.replace(r'[\$...,]', '', regex=True).astype(float) of one cell
CurrencyCell(cell) == float_of(RemoveChars(astype_str(cell), {"$", ","}))

\* .str.replace('%', '').astype(float) / 100 of one cell (the percentages of
\* the model are whole multiples of 100%)
PercentCell(cell) ==
    LET f == float_of(RemoveChars(astype_str(cell), {"%"}))
    IN  IF f.raised \/ f.cell.t # "num" THEN f
        ELSE [raised |-> FALSE, cell |-> Num(f.cell.n \div 100)]

\* astype(str).str.strip() of one cell
TrimCell(cell) == Str(strip(astype_str(cell)))

\* The state of _apply_cleaning_rules is [df, logs, raised].  One column of a
\* conversion rule: when a cell of column i matches, the whole column is
\* converted to float (an exception of astype leaves clean) and logged.
ConvertColumn(st, i, rule) ==
    LET Matches(c) == IF rule = "remove_currency_symbols"
                      THEN IsCurrencyText(astype_str(c))
                      ELSE IsPercentText(astype_str(c))
        Conv(c) == IF rule = "remove_currency_symbols" THEN CurrencyCell(c)
                   ELSE PercentCell(c)
        col == [k \in DOMAIN st.df.rows |-> st.df.rows[k][i]]
    IN  IF st.raised \/ ~(\E k \in DOMAIN col : Matches(col[k])) THEN st
        ELSE IF \E k \in DOMAIN col : Conv(col[k]).raised
             THEN [st EXCEPT !.raised = TRUE]
             ELSE [df |-> [st.df EXCEPT
                              !.dtypes[i] = "num",
                              !.rows = [k \in DOMAIN st.df.rows |->
                                          [st.df.rows[k] EXCEPT ![i] = Conv(col[k]).cell]]],
                   logs |-> Append(st.logs,
                                   [entry |-> IF rule = "remove_currency_symbols"
                                              THEN "[CURRENCY]" ELSE "[PERCENT]",
                                    col |-> st.df.columns[i]]),
                   raised |-> FALSE]

RECURSIVE ConvertColumns(_, _, _)
ConvertColumns(st, idx, rule) ==
    IF idx = <<>> THEN st
    ELSE ConvertColumns(ConvertColumn(st, Head(idx), rule), Tail(idx), rule)

\* df.isna().sum().sum()
NullCount(df) ==
    Cardinality({<<k, i>> \in (DOMAIN df.rows) \X (DOMAIN df.columns) : IsNull(df.rows[k][i])})

\* trim_whitespace: every object column becomes its stripped text.
TrimWhitespace(df) ==
    [df EXCEPT !.rows = [k \in DOMAIN df.rows |->
        [i \in DOMAIN df.columns |->
            IF df.dtypes[i] = "obj" THEN TrimCell(df.rows[k][i]) ELSE df.rows[k][i]]]]

\* One rule of the loop; a rule name without a branch does nothing.
ApplyRule(st, rule) ==
    IF st.raised THEN st
    ELSE IF rule \in {"remove_currency_symbols", "convert_percentages"}
         THEN ConvertColumns(st, ObjectIndices(st.df), rule)
    ELSE IF rule = "handle_nulls"
         THEN IF NullCount(st.df) > 0
              THEN [st EXCEPT !.logs = Append(@, [entry |-> "[NULL]",
                                                  count |-> NullCount(st.df)])]
              ELSE st
    ELSE IF rule = "trim_whitespace"
         THEN [st EXCEPT !.df = TrimWhitespace(@)]
    ELSE st

RECURSIVE ApplyRules(_, _)
ApplyRules(st, rules) ==
    IF rules = <<>> THEN st ELSE ApplyRules(ApplyRule(st, Head(rules)), Tail(rules))

\* _apply_cleaning_rules(df, rules): [df, logs, raised]
_apply_cleaning_rules(df, rules) ==
    LET st == ApplyRules([df |-> df, logs |-> <<>>, raised |-> FALSE], rules)
    IN  IF st.raised THEN st
        ELSE [st EXCEPT !.logs = Append(@, [entry |-> "[RULES]", count |-> Len(rules)])]

DATE_PATTERNS == <<Chars("date"), Chars("time"), Chars("month"), Chars("year"),
                   Chars("period")>>

\* _detect_date_columns(df): the columns with a date word in their name or of a
\* datetime dtype, in column order.
_detect_date_columns(df) ==
    LET IsDate(i) == \/ \E p \in DOMAIN DATE_PATTERNS :
                           Contains(lower(df.columns[i]), DATE_PATTERNS[p])
                     \/ df.dtypes[i] = "date"
        idx == SelectSeq([i \in DOMAIN df.columns |-> i], IsDate)
    IN  [k \in DOMAIN idx |-> df.columns[idx[k]]]

\* [self._standardize_header(c) for c in numeric_columns if c not in date_columns]
NumericResult(numeric_columns, date_columns) ==
    LET kept == SelectSeq(numeric_columns, LAMBDA c : c \notin Range(date_columns))
    IN  [k \in DOMAIN kept |-> _standardize_header(kept[k])]

\* df.to_dict('records'): each row as a mapping from the column names to its
\* cells; of columns with the same name the last one gives the value.
to_dict_records(columns, rows) ==
    [k \in DOMAIN rows |->
        [name \in Range(columns) |->
            rows[k][CHOOSE i \in DOMAIN columns :
                        /\ columns[i] = name
                        /\ \A j \in DOMAIN columns : j > i => columns[j] # name]]]

\* clean(file_path, filename, domain), file.filename standing for file_path.
\* raised stands for an exception leaving clean (of the parser, or of a
\* conversion rule); source_rows is the table as parsed, kept for reference.
clean(file, domain) ==
    LET parsed == ParseFile(file)
    IN  IF parsed.raised
        THEN [raised |-> TRUE, parser |-> parsed.parser, error |-> parsed.error]
        ELSE LET initial_rows == NRows(parsed.df)
                 ruled == _apply_cleaning_rules(parsed.df, RulesFor(domain))
             IN  IF ruled.raised
                 THEN [raised |-> TRUE, parser |-> parsed.parser,
                       error |-> [type |-> "ValueError",
                                  text |-> "could not convert string to float"]]
                 ELSE LET df == dropna_all(ruled.df)
                          removed_rows == initial_rows - NRows(df)
                          numeric_columns == NumericColumns(df)
                          categorical_columns == ObjectColumns(df)
                          date_columns == _detect_date_columns(df)
                          headers == [i \in DOMAIN df.columns |->
                                         _standardize_header(df.columns[i])]
                      IN  [raised |-> FALSE, parser |-> parsed.parser,
                           headers |-> headers,
                           rows |-> to_dict_records(headers, df.rows),
                           numeric_columns |-> NumericResult(numeric_columns, date_columns),
                           categorical_columns |->
                               [k \in DOMAIN categorical_columns |->
                                   _standardize_header(categorical_columns[k])],
                           date_columns |->
                               [k \in DOMAIN date_columns |->
                                   _standardize_header(date_columns[k])],
                           row_count |-> NRows(df),
                           column_count |-> Len(headers),
                           rule_logs |-> ruled.logs,
                           removed_rows |-> removed_rows,
                           dtypes |-> df.dtypes]

\* analyze_file up to the frame without its empty rows (1. Load Data and
\* df.dropna(how='all')): what the caller gets when loading fails.
AnalyzeLoad(file) ==
    LET loaded == LoadData(file)
    IN  IF loaded.raised
        THEN [raised |-> TRUE, parser |-> loaded.parser,
              response |-> ErrorResponse(loaded.error)]
        ELSE [raised |-> FALSE, parser |-> loaded.parser,
              headers |-> loaded.df.columns,
              rows |-> dropna_all(loaded.df).rows]

(************************ ingestion and cleaning, checked ********************)

FileNames == {
    Chars("data.csv"), Chars("data.xls"), Chars("data.xlsx"), Chars("data.txt"),
    Chars("data.json"), Chars("data.tar.gz"), Chars("data") }

\* A text cell of the tables below.
Txt(s) == Str(Chars(s))

\* The tables of the files: column names as a parser hands them over (pairwise
\* distinct) and rows, among them rows with no cell present.
Tables == {
    [columns |-> <<Chars("Total Sales"), Chars("total_sales")>>,
     rows |-> <<<<Num(1), Num(1)>>>>],
    [columns |-> <<Chars("Name"), Chars("Net Profit"), Chars("Hire Date")>>,
     rows |-> <<<<Txt(" Eng "), Num(10), Txt("2024-01-15")>>,
                <<NaN, NaN, NaN>>,
                <<Txt("Ops"), Num(20), NaN>>>>],
    [columns |-> <<Chars("Cost ($)"), Chars("Cost (%)")>>,
     rows |-> <<<<Txt("$5"), Txt("100%")>>,
                <<NaN, NaN>>,
                <<Txt("$1,200"), Txt("300%")>>>>],
    [columns |-> <<Chars("Price"), Chars("Year")>>,
     rows |-> <<<<Txt("$5"), Num(2020)>>, <<Txt("free"), Num(2021)>>>>],
    [columns |-> <<Chars("id")>>,
     rows |-> <<<<Num(1)>>, <<NaN>>, <<Num(2)>>>>] }

IngestInputs ==
    {Upload(n, f, t.columns, t.rows) :
        n \in FileNames, f \in {"csv", "excel", "garbage"}, t \in Tables}

\* The domain hints clean is called with; "biology" has no rule list.
DomainHints == {"finance", "hr", "general", "biology"}

InitClean == ServerInit /\ op = "none" /\ arg \in IngestInputs /\ res = Nothing

Clean == \E domain \in DomainHints : Apply("clean", clean(arg, domain))

Ingest == Apply("analyze_file", AnalyzeLoad(arg))

NextClean == Clean \/ Ingest

SpecClean == InitClean /\ [][NextClean]_vars

(************************ the blueprint parser, checked **********************)

\* The texts of a reply have at most MaxTokens tokens.
MaxTokens == 3

SopTokens ==
    {Tok("fence_json"), Tok("fence"), Tok("space"), Tok("prose")}
    \cup {JsonTok(v) : v \in {ChartsJson, NoChartsJson, WaterfallJson, BadDomainJson,
                              IncompleteJson, ArrayJson}}

SopReplies == {NoneReply} \cup {Reply(t) : t \in BoundedSeq(SopTokens, MaxTokens)}

InitSop == ServerInit /\ op = "none" /\ arg \in SopReplies /\ res = Nothing

AnalyzeDatasetStructure ==
    Apply("analyze_dataset_structure", analyze_dataset_structure(arg))

NextSop == AnalyzeDatasetStructure

SpecSop == InitSop /\ [][NextSop]_vars

(************************ claims on ingestion *********************************)

SupportedExtensions == {Chars("csv"), Chars("xls"), Chars("xlsx")}

\* The reason a failed ingestion gives its caller.
ReasonOf(result) ==
    IF op = "analyze_file" THEN result.response.detail
    ELSE IF result.error.type = "HTTPException" THEN StrOfError(result.error)
    ELSE result.error.type

\* C1: a file whose extension is none of csv, xls, xlsx is not ingested: the
\* operation fails with the reason "unsupported format", no parser is invoked
\* on the file and no dataset comes out; a file with one of the three
\* extensions is read by the parser of that extension.
C1_UnsupportedFormatRejected ==
    op \in {"clean", "analyze_file"} =>
        IF ExtOf(arg.filename) \notin SupportedExtensions
        THEN /\ res.raised
             /\ res.parser = "none"
             /\ ReasonOf(res) \in {"Unsupported file format",
                                   "400: Unsupported file format", "UnsupportedFormat"}
        ELSE IF ExtOf(arg.filename) = Chars("csv")
             THEN res.parser = "read_csv"
             ELSE res.parser \in {"read_excel", "_parse_excel_smart"}

\* C10: the headers of a cleaned dataset are pairwise distinct.
C10_HeadersDistinct ==
    (op = "clean" /\ ~res.raised)
        => \A i, j \in DOMAIN res.headers : i # j => res.headers[i] # res.headers[j]

(************************ claims on the blueprint parser *********************)

\* The JSON value a reply carries: what is left of the text without fences and
\* white space is exactly one JSON value.
CarriesJson(reply) ==
    /\ ~reply.is_none
    /\ Cardinality({i \in DOMAIN reply.text :
                        reply.text[i].tok \notin {"fence_json", "fence", "space"}}) = 1
    /\ \E i \in DOMAIN reply.text : reply.text[i].tok = "json"

CarriedJson(reply) ==
    reply.text[CHOOSE i \in DOMAIN reply.text : reply.text[i].tok = "json"].value

\* The value meets the blueprint schema.
MeetsSchema(v) ==
    /\ v.type = "object"
    /\ v.complete
    /\ v.domain \in {"HR", "Sales", "Finance", "Inventory", "General"}
    /\ \A i \in DOMAIN v.recommended_charts :
          /\ v.recommended_charts[i].complete
          /\ v.recommended_charts[i].chart_type \in
                {"bar", "line", "area", "pie", "scatter", "heatmap", "boxplot", "radar"}

\* C2: analyze_dataset_structure never lets a parse or validation failure out:
\* it returns the blueprint of a reply that carries a JSON value meeting the
\* schema, and the fallback blueprint for every other reply.
C2_NeverPropagates ==
    op = "analyze_dataset_structure"
        => /\ ~res.raised
           /\ IF CarriesJson(arg) /\ MeetsSchema(CarriedJson(arg))
              THEN /\ res.blueprint.domain = CarriedJson(arg).domain
                   /\ Len(res.blueprint.recommended_charts)
                         = Len(CarriedJson(arg).recommended_charts)
                   /\ res.blueprint.summary_insight = CarriedJson(arg).summary_insight
              ELSE res.blueprint = _get_fallback_blueprint

\* A reply whose JSON is well-formed but offends the schema got the fallback.
C2_FallbackWitness ==
    /\ op = "analyze_dataset_structure"
    /\ CarriesJson(arg)
    /\ CarriedJson(arg).type = "object"
    /\ ~MeetsSchema(CarriedJson(arg))
    /\ ~res.raised
    /\ res.blueprint = _get_fallback_blueprint

(************************ claims on the service ******************************)

\* The frame an analysis of file works on.
FrameOf(file) == clean_data_types(dropna_all(LoadData(file).df))

\* The indices of the attempts of a request that added a chart.
AddedIndices(attempts) ==
    SelectSeq([i \in DOMAIN attempts |-> i], LAMBDA i : attempts[i] = "added")

\* Every recommended chart is tried in blueprint order, whatever the charts
\* before it did, the request goes on to the session step, and a response that
\* is rendered carries exactly the charts that aggregated to data.
C3_EveryChartTried ==
    \A r \in Slots :
        (inflight[r].pc = "done" /\ ~LoadData(inflight[r].file).raised) =>
            LET a == inflight[r]
                reqs == analyze_dataset_structure(a.reply).blueprint.recommended_charts
                df == FrameOf(a.file)
                kept == AddedIndices(a.attempts)
            IN  /\ a.stored
                /\ Len(a.attempts) = Len(reqs)
                /\ \A i \in DOMAIN reqs :
                      LET out == calculate_chart_data(df, reqs[i])
                      IN  a.attempts[i] = IF out.raised THEN "raised"
                                          ELSE IF out.data # <<>> THEN "added"
                                          ELSE "empty"
                /\ a.response.status = 200 =>
                      /\ Len(a.response.content.charts) = Len(kept)
                      /\ \A k \in DOMAIN kept :
                            /\ a.response.content.charts[k].title = reqs[kept[k]].title
                            /\ a.response.content.charts[k].data
                                  = calculate_chart_data(df, reqs[kept[k]]).data

\* C3: when the aggregation of a recommended chart raises, that chart alone
\* is skipped: every other recommended chart is still aggregated, in
\* blueprint order, and the analysis returns a successful result that carries
\* the charts that aggregated to data.
C3_ChartFailureSkipped ==
    \A r \in Slots :
        (/\ inflight[r].pc = "done"
         /\ ~LoadData(inflight[r].file).raised
         /\ \E i \in DOMAIN inflight[r].attempts : inflight[r].attempts[i] = "raised") =>
            LET a == inflight[r]
                reqs == analyze_dataset_structure(a.reply).blueprint.recommended_charts
                df == FrameOf(a.file)
                kept == AddedIndices(a.attempts)
            IN  /\ Len(a.attempts) = Len(reqs)
                /\ \A i \in DOMAIN reqs :
                      a.attempts[i] # "raised" =>
                          ~calculate_chart_data(df, reqs[i]).raised
                /\ a.response.status = 200
                /\ Len(a.response.content.charts) = Len(kept)
                /\ \A k \in DOMAIN kept :
                      a.response.content.charts[k].data
                          = calculate_chart_data(df, reqs[kept[k]]).data

\* C4: a session id that no successful analyze returned is answered 404 by
\* /data and /chat, and an id in the store is answered from the dataset stored
\* under it.
C4_SessionLookup ==
    last.kind \in {"data", "chat"} =>
        /\ last.session_id \notin returned => last.status = 404
        /\ last.session_id \in DOMAIN SESSION_STORE =>
              /\ last.status # 404
              /\ last.kind = "chat" => last.about = SESSION_STORE[last.session_id]
              /\ (last.kind = "data" /\ last.status = 200) =>
                    /\ last.total_rows = NRows(SESSION_STORE[last.session_id])
                    /\ last.data = iloc(SESSION_STORE[last.session_id].rows,
                                        (last.page - 1) * last.limit,
                                        (last.page - 1) * last.limit + last.limit)

UnconditionalEntries == {"Processed by Python (Stateful Mode)", "Rows", "Domain"}

\* The cleaning log has an entry beyond the ones every response carries.
RecordsDegradation(log) == \E k \in DOMAIN log : log[k].entry \notin UnconditionalEntries

\* C5: a successful response whose analysis degraded (a chart was skipped, or
\* the fallback blueprint replaced a reply that did not validate) records the
\* degradation in its cleaning log.
C5_DegradationsLogged ==
    \A r \in Slots :
        (inflight[r].pc = "done" /\ inflight[r].response.status = 200) =>
            /\ (\E i \in DOMAIN inflight[r].attempts : inflight[r].attempts[i] = "raised")
                  => RecordsDegradation(inflight[r].response.content.cleaning_log)
            /\ ~(CarriesJson(inflight[r].reply) /\ MeetsSchema(CarriedJson(inflight[r].reply)))
                  => RecordsDegradation(inflight[r].response.content.cleaning_log)

\* What a request answers when it is the only one the service ever serves.
AloneResponse(file, reply, session_id) ==
    LET c == Computed(file, reply)
    IN  IF c.pc = "done" THEN c.response ELSE Responded(c, session_id).response

C6_Isolated ==
    \A r \in Slots :
        inflight[r].pc = "done" =>
            IF inflight[r].stored
            THEN /\ inflight[r].session_id \in DOMAIN SESSION_STORE
                 /\ SESSION_STORE[inflight[r].session_id] = FrameOf(inflight[r].file)
                 /\ inflight[r].response
                       = AloneResponse(inflight[r].file, inflight[r].reply,
                                       inflight[r].session_id)
                 /\ \A q \in Slots \ {r} :
                       (inflight[q].pc = "done" /\ inflight[q].stored)
                           => inflight[q].session_id # inflight[r].session_id
            ELSE inflight[r].response
                    = AloneResponse(inflight[r].file, inflight[r].reply, 0)

C6_StoreKept ==
    \A id \in DOMAIN SESSION_STORE :
        id \in DOMAIN SESSION_STORE' /\ SESSION_STORE'[id] = SESSION_STORE[id]

\* C6: analyses in flight together do not interfere: their session ids are
\* distinct, each answers what it would answer alone, each dataset is stored
\* under its own id, and no stored dataset is ever overwritten or removed.
C6_ConcurrentAnalysesIndependent == []C6_Isolated /\ [][C6_StoreKept]_vars

\* Two requests in flight together, on different files, both answered 200.
C6_TwoInFlightWitness ==
    /\ \A r \in Slots : /\ inflight[r].pc = "done"
                        /\ inflight[r].stored
                        /\ inflight[r].response.status = 200
    /\ inflight["r1"].file # inflight["r2"].file
    /\ inflight["r1"].session_id # inflight["r2"].session_id

(************************ services/analyzer.py: correlations *****************)

\* A correlation is held in units of 1/CorrUnit; [nan |-> TRUE] is NaN (a
\* column without variance).  A reported correlation is held in thousandths.
CorrUnit == 10000
Corr(c) == [nan |-> FALSE, c |-> c]
CorrNaN == [nan |-> TRUE, c |-> 0]

Abs(n) == IF n < 0 THEN -n ELSE n

\* round(float(corr), 3), in thousandths (no correlation of the model lies
\* half-way between two thousandths).
Round3(c) ==
    LET q == Abs(c) \div (CorrUnit \div 1000)
        r == Abs(c) % (CorrUnit \div 1000)
        up == IF 2 * r > (CorrUnit \div 1000) \/ (2 * r = (CorrUnit \div 1000) /\ q % 2 = 1)
              THEN q + 1 ELSE q
    IN  IF c < 0 THEN -up ELSE up

ID_WORDS == <<Chars("id"), Chars("code"), Chars("key"), Chars("extension")>>

\* any(x in c.lower() for x in ['id', 'code', 'key', 'extension'])
LooksLikeId(c) == \E w \in DOMAIN ID_WORDS : Contains(lower(c), ID_WORDS[w])

\* A plausible slip: the identifier columns are not excluded.
MeaningfulColsAll(data) ==
    SelectSeq(data.numeric_cols, LAMBDA c : c \in Range(data.columns))

\* meaningful_cols: the numeric columns of the frame whose name does not look
\* like an identifier, in their order.
MeaningfulCols(data) ==
    SelectSeq(data.numeric_cols, LAMBDA c : ~LooksLikeId(c) /\ c \in Range(data.columns))

\* corr_matrix.loc[col1, col2]: data.corr is the (symmetric) matrix pandas computes.
corr_matrix(data, col1, col2) == data.corr[{col1, col2}]

\* A plausible slip: corr * 100 is rounded to the nearest integer.
Round100(c) ==
    IF c >= 0 THEN (c + (CorrUnit \div 200)) \div (CorrUnit \div 100)
    ELSE -(((-c) + (CorrUnit \div 200)) \div (CorrUnit \div 100))

\* int(corr * 100): truncation towards zero.
Int100(c) == IF c >= 0 THEN c \div (CorrUnit \div 100) ELSE -((-c) \div (CorrUnit \div 100))

\* _generate_insight(col1, col2, corr): the template set and the index of the
\* template in it, with the direction the text names.
_generate_insight(col1, col2, c) ==
    LET bucket == IF 10 * Abs(c) > 7 * CorrUnit THEN "strong"
                  ELSE IF 10 * Abs(c) < 3 * CorrUnit THEN "weak"
                  ELSE "moderate"
        count == IF bucket = "strong" THEN 3 ELSE IF bucket = "weak" THEN 4 ELSE 1
    IN  [bucket |-> bucket,
         index |-> (Len(col1) + Len(col2) + Int100(c)) % count,
         direction |-> IF c > 0 THEN "positive" ELSE "negative"]

\* pd.notna(corr) and abs(corr) > 0.3
IsSignificant(corr) == ~corr.nan /\ 10 * Abs(corr.c) > 3 * CorrUnit

\* The records of the pairs (col1, col2) for col2 in cols, in order.
RECURSIVE PairsWith(_, _, _)
PairsWith(data, col1, cols) ==
    IF cols = <<>> THEN <<>>
    ELSE LET corr == corr_matrix(data, col1, Head(cols))
         IN  (IF IsSignificant(corr)
              THEN <<[feature_a |-> col1, feature_b |-> Head(cols),
                      correlation |-> Round3(corr.c),
                      insight |-> _generate_insight(col1, Head(cols), corr.c)]>>
              ELSE <<>>)
             \o PairsWith(data, col1, Tail(cols))

\* for i, col1 in enumerate(cols): for col2 in cols[i+1:]
RECURSIVE AllPairs(_, _)
AllPairs(data, cols) ==
    IF cols = <<>> THEN <<>>
    ELSE PairsWith(data, Head(cols), Tail(cols)) \o AllPairs(data, Tail(cols))

\* A record put into a sequence ordered by descending |correlation|, behind its equals.
RECURSIVE InsertByAbs(_, _)
InsertByAbs(sorted, e) ==
    IF sorted = <<>> THEN <<e>>
    ELSE IF Abs(Head(sorted).correlation) >= Abs(e.correlation)
         THEN <<Head(sorted)>> \o InsertByAbs(Tail(sorted), e)
         ELSE <<e>> \o sorted

\* correlations.sort(key=lambda x: abs(x['correlation']), reverse=True): stable.
RECURSIVE SortByAbs(_, _)
SortByAbs(records, sorted) ==
    IF records = <<>> THEN sorted
    ELSE SortByAbs(Tail(records), InsertByAbs(sorted, Head(records)))

\* _calculate_correlations(df, numeric_cols)
_calculate_correlations(data) ==
    LET meaningful_cols == MeaningfulCols(data)
    IN  IF Len(meaningful_cols) < 2 THEN <<>>
        ELSE head(SortByAbs(AllPairs(data, meaningful_cols), <<>>), 10)

(************************ correlations, checked ******************************)

\* The numeric column lists have at most MaxCols names.
MaxCols == 9

\* The correlation matrices are drawn with the seeds 0..MaxSeed.
MaxSeed == 3

ColumnNames == <<Chars("sales"), Chars("cost"), Chars("User_ID"), Chars("age"),
                 Chars("ZipCode"), Chars("profit"), Chars("units"), Chars("price"),
                 Chars("Keyword"), Chars("revenue"), Chars("bonus"), Chars("weight")>>

CorrValues == <<Corr(7000), Corr(3004), CorrNaN, Corr(-9000), Corr(3000), Corr(10000),
                Corr(-3004), Corr(0), Corr(4500), Corr(-3001), Corr(8126), Corr(2996),
                Corr(-7000)>>

NameIndex(c) == CHOOSE i \in DOMAIN ColumnNames : ColumnNames[i] = c

\* A symmetric matrix over the column names, one for every seed.
CorrMatrix(seed) ==
    [pair \in {{ColumnNames[i], ColumnNames[j]} : i, j \in DOMAIN ColumnNames} |->
        IF Cardinality(pair) = 1 THEN Corr(CorrUnit)
        ELSE LET i == CHOOSE k \in DOMAIN ColumnNames :
                        ColumnNames[k] \in pair /\ \A c \in pair : NameIndex(c) >= k
                 j == CHOOSE k \in DOMAIN ColumnNames :
                        ColumnNames[k] \in pair /\ \A c \in pair : NameIndex(c) <= k
             IN  CorrValues[((3 * i + 5 * j + seed) % Len(CorrValues)) + 1]]

\* n names of ColumnNames from position start on, wrapping around.
NamesFrom(start, n) ==
    [k \in 1..n |-> ColumnNames[((start + k - 1) % Len(ColumnNames)) + 1]]

CorrInputs ==
    {[numeric_cols |-> NamesFrom(start, n),
      columns |-> SelectSeq(ColumnNames, LAMBDA c : c # missing),
      seed |-> seed,
      corr |-> CorrMatrix(seed)] :
        start \in 0..(Len(ColumnNames) - 1), n \in 0..MaxCols, seed \in 0..MaxSeed,
        missing \in {Chars("none"), Chars("price")}}

InitCorr == ServerInit /\ op = "none" /\ arg \in CorrInputs /\ res = Nothing

CalculateCorrelations ==
    Apply("_calculate_correlations", [records |-> _calculate_correlations(arg)])

NextCorr == CalculateCorrelations

SpecCorr == InitCorr /\ [][NextCorr]_vars

(************************ claims on correlations *****************************)

\* C12: no column whose name contains id, code, key or extension (in any
\* case) is feature_a or feature_b of a record of _calculate_correlations, and
\* the result is empty when fewer than 2 columns remain without them.
C12_IdentifiersExcluded ==
    op = "_calculate_correlations" =>
        LET Named(c) == \E w \in {Chars("id"), Chars("code"), Chars("key"), Chars("extension")} :
                            Contains(lower(c), w)
            remaining == {c \in Range(arg.numeric_cols) :
                             ~Named(c) /\ c \in Range(arg.columns)}
        IN  /\ \A k \in DOMAIN res.records :
                  ~Named(res.records[k].feature_a) /\ ~Named(res.records[k].feature_b)
            /\ Cardinality(remaining) < 2 => res.records = <<>>

\* Identifier columns stood among the numeric ones and records were returned.
C12_ExcludedWitness ==
    /\ op = "_calculate_correlations"
    /\ \E c \in Range(arg.numeric_cols) : Contains(lower(c), Chars("id"))
    /\ \E c \in Range(arg.numeric_cols) : Contains(lower(c), Chars("code"))
    /\ Len(res.records) >= 2

\* The significant pairs of an input: unordered pairs of qualifying columns
\* with a defined correlation beyond 0.3.
SignificantPairs(data) ==
    {pair \in {{a, b} : a, b \in Range(MeaningfulCols(data))} :
        Cardinality(pair) = 2 /\ ~data.corr[pair].nan
        /\ 10 * Abs(data.corr[pair].c) > 3 * CorrUnit}

\* C13: each unordered pair of qualifying columns is emitted at most once and
\* only with a defined correlation, every reported correlation satisfies
\* |r| > 0.3, the list is in non-increasing |r| order and holds at most 10
\* records, those with the largest |r|.
C13_SignificantPairsRanked ==
    op = "_calculate_correlations" =>
        LET recs == res.records
            PairOf(k) == {recs[k].feature_a, recs[k].feature_b}
            emitted == {PairOf(k) : k \in DOMAIN recs}
        IN  /\ \A k, l \in DOMAIN recs : k # l => PairOf(k) # PairOf(l)
            /\ \A k \in DOMAIN recs : Cardinality(PairOf(k)) = 2 /\ ~arg.corr[PairOf(k)].nan
            /\ \A k \in DOMAIN recs : Abs(recs[k].correlation) > 300
            /\ \A k \in 1..(Len(recs) - 1) :
                  Abs(recs[k].correlation) >= Abs(recs[k + 1].correlation)
            /\ Len(recs) <= 10
            /\ emitted \subseteq SignificantPairs(arg)
            /\ Len(recs) = Min2(10, Cardinality(SignificantPairs(arg)))
            /\ \A pair \in SignificantPairs(arg) \ emitted : \A k \in DOMAIN recs :
                  Abs(Round3(arg.corr[pair].c)) <= Abs(recs[k].correlation)

(************************ services/analyzer.py: forecast *********************)

\* A cell as the value _convert_date receives.
CellValue(cell) ==
    IF cell.t = "num" THEN [kind |-> "int", units |-> cell.n * Scale]
    ELSE IF cell.t = "ts" THEN [kind |-> "timestamp", days |-> cell.day]
    ELSE IF cell.t = "str"
         THEN [kind |-> "str", parses |-> cell.s \in DateTexts, days |-> DayOfText(cell.s)]
    ELSE [kind |-> "nan"]

PRIORITY_PATTERNS == <<Chars("revenue"), Chars("sales"), Chars("amount"), Chars("total"),
                       Chars("value"), Chars("income"), Chars("salary")>>

\* The first of numeric_cols whose lower-cased name contains the pattern, <<>> when none does.
FirstWith(pattern, numeric_cols) ==
    LET hits == SelectSeq(numeric_cols, LAMBDA col : Contains(lower(col), pattern))
    IN  IF hits = <<>> THEN <<>> ELSE Head(hits)

\* The loop over priority_patterns from pattern p on: the first pattern that
\* names a column decides.
RECURSIVE PriorityColumn(_, _)
PriorityColumn(p, numeric_cols) ==
    IF p > Len(PRIORITY_PATTERNS) THEN <<>>
    ELSE IF FirstWith(PRIORITY_PATTERNS[p], numeric_cols) # <<>>
         THEN FirstWith(PRIORITY_PATTERNS[p], numeric_cols)
         ELSE PriorityColumn(p + 1, numeric_cols)

\* value_col: the priority column, else the first numeric column.
ValueColumn(numeric_cols) ==
    IF PriorityColumn(1, numeric_cols) # <<>> THEN PriorityColumn(1, numeric_cols)
    ELSE Head(numeric_cols)

\* df[[date_col, value_col]].dropna() with the date converted: the rows with
\* both cells present as [day, late, y]; late marks a date that fell back on
\* datetime.now(), which is later than every date of that day.
PreparedRows(df, date_col, value_col, now) ==
    LET both == SelectSeq(df.rows, LAMBDA row :
                    /\ ~IsNull(row[ColIndex(df, date_col)])
                    /\ ~IsNull(row[ColIndex(df, value_col)]))
    IN  [k \in DOMAIN both |->
            LET v == CellValue(both[k][ColIndex(df, date_col)])
            IN  [day |-> _convert_date(v, now).days,
                 late |-> IF _convert_date(v, now) # _convert_date(v, now + 1) THEN 1 ELSE 0,
                 y |-> both[k][ColIndex(df, value_col)]]]

RECURSIVE InsertByDate(_, _)
InsertByDate(sorted, e) ==
    IF sorted = <<>> THEN <<e>>
    ELSE IF 2 * Head(sorted).day + Head(sorted).late <= 2 * e.day + e.late
         THEN <<Head(sorted)>> \o InsertByDate(Tail(sorted), e)
         ELSE <<e>> \o sorted

\* df_sorted.sort_values(date_col): ascending, equal dates in their given order.
RECURSIVE SortByDate(_, _)
SortByDate(rows, sorted) ==
    IF rows = <<>> THEN sorted
    ELSE SortByDate(Tail(rows), InsertByDate(sorted, Head(rows)))

RECURSIVE SumSeq(_)
SumSeq(xs) == IF xs = <<>> THEN 0 ELSE Head(xs) + SumSeq(Tail(xs))

\* stats.linregress(x, y) for x = 0..n-1: slope = ssxym / ssxm and
\* intercept = ymean - slope * xmean, held exactly as fractions:
\* slope = num / den, intercept = inum / iden (den, iden > 0).
linregress(y) ==
    LET n == Len(y)
        sx == SumSeq([k \in 1..n |-> k - 1])
        sy == SumSeq(y)
        ssxym == SumSeq([k \in 1..n |-> (n * (k - 1) - sx) * (n * y[k] - sy)])
        ssxm == SumSeq([k \in 1..n |-> (n * (k - 1) - sx) * (n * (k - 1) - sx)])
    IN  [num |-> ssxym, den |-> ssxm,
         inum |-> sy * ssxm - ssxym * sx, iden |-> n * ssxm]

\* A plausible slip: the threshold itself counts as stable.
IsStableInclusive(fit, y) ==
    100 * Abs(fit.num) * Len(y) <= fit.den * SumSeq(y)

\* abs(slope) < 0.01 * np.mean(y)
IsStable(fit, y) ==
    100 * Abs(fit.num) * Len(y) < fit.den * SumSeq(y)

\* trend
Trend(fit, y) ==
    IF IsStable(fit, y) THEN "Stable"
    ELSE IF fit.num > 0 THEN "Upward" ELSE "Downward"

\* round(num / den, 2) in hundredths, for den > 0: to the nearest, a tie to the even one.
Round2(num, den) ==
    LET a == 100 * Abs(num)
        q == a \div den
        r == a % den
        up == IF 2 * r > den \/ (2 * r = den /\ q % 2 = 1) THEN q + 1 ELSE q
    IN  IF num < 0 THEN -up ELSE up

\* predicted = slope * next_x + intercept, as the fraction [num, den]
Predicted(fit, next_x) ==
    [num |-> fit.num * next_x * (fit.iden \div fit.den) + fit.inum, den |-> fit.iden]

\* A plausible slip: the prediction is not floored.
ForecastValueUnfloored(fit, next_x) ==
    Round2(Predicted(fit, next_x).num, Predicted(fit, next_x).den)

\* max(0, round(predicted, 2)), in hundredths
ForecastValue(fit, next_x) ==
    LET rounded == Round2(Predicted(fit, next_x).num, Predicted(fit, next_x).den)
    IN  IF rounded > 0 THEN rounded ELSE 0

\* len(df_sorted) < 3
TooFewRows(df_sorted) == Len(df_sorted) < 3

NoForecast == [raised |-> FALSE, none |-> TRUE]

\* .values.astype(float) of one cell of the value column: [raised, cell].  A
\* number is itself, a text is converted as float() does, a timestamp raises.
astype_float(cell) ==
    IF cell.t \in {"num", "nan"} THEN [raised |-> FALSE, cell |-> cell]
    ELSE IF cell.t = "str" THEN float_of(Chars(cell.s))
    ELSE [raised |-> TRUE, cell |-> NaN]

\* The result for a series that holds a NaN (the text 'nan'): slope, intercept
\* and mean are NaN, every comparison with them is False, and max(0, nan) is 0.
NaNForecast(df_sorted, date_col, value_col, months_ahead) ==
    [raised |-> FALSE, none |-> FALSE,
     metric |-> value_col,
     date_column |-> date_col,
     trend |-> "Downward",
     slope |-> NaN,
     historical_data |->
         [k \in DOMAIN df_sorted |->
             [date |-> df_sorted[k].day,
              value |-> IF astype_float(df_sorted[k].y).cell = NaN THEN NaN
                        ELSE astype_float(df_sorted[k].y).cell.n,
              is_forecast |-> FALSE]],
     forecast_data |->
         [i \in 1..months_ahead |->
             [date |-> df_sorted[Len(df_sorted)].day + 30 * i,
              value |-> 0,
              is_forecast |-> TRUE]]]

\* The body of the try block for a frame that has both columns.  When the date
\* column is also the value column, df[[date_col, value_col]] holds the label
\* twice and sort_values(date_col) raises; except: return None.
ForecastOf(df, date_col, value_col, months_ahead, now) ==
    LET df_sorted == SortByDate(PreparedRows(df, date_col, value_col, now), <<>>)
        n == Len(df_sorted)
        y == [k \in 1..n |-> astype_float(df_sorted[k].y).cell.n]
        fit == linregress(y)
    IN  IF date_col = value_col THEN NoForecast
        ELSE IF TooFewRows(df_sorted) THEN NoForecast
        ELSE IF \E k \in 1..n : astype_float(df_sorted[k].y).raised
             THEN NoForecast     \* astype(float) raised, except: return None
        ELSE IF \E k \in 1..n : astype_float(df_sorted[k].y).cell = NaN
             THEN NaNForecast(df_sorted, date_col, value_col, months_ahead)
        ELSE [raised |-> FALSE, none |-> FALSE,
              metric |-> value_col,
              date_column |-> date_col,
              trend |-> Trend(fit, y),
              slope |-> Round2(fit.num, fit.den),
              historical_data |->
                  [k \in 1..n |-> [date |-> df_sorted[k].day, value |-> y[k],
                                   is_forecast |-> FALSE]],
              forecast_data |->
                  [i \in 1..months_ahead |->
                      [date |-> df_sorted[n].day + 30 * i,
                       value |-> ForecastValue(fit, n - 1 + i),
                       is_forecast |-> TRUE]]]

\* forecast(data, months_ahead); now is the day of the call.
forecast(data, months_ahead, now) ==
    IF data.date_columns = <<>> \/ data.numeric_columns = <<>> THEN NoForecast
    ELSE LET date_col == data.date_columns[1]
             value_col == ValueColumn(data.numeric_columns)
         IN  IF value_col = <<>> \/ ~HasCol(data.df, date_col) \/ ~HasCol(data.df, value_col)
             THEN NoForecast
             ELSE ForecastOf(data.df, date_col, value_col, months_ahead, now)

(************************ forecast, checked **********************************)

\* forecast is asked for 0..MaxMonths months and for its default.
MaxMonths == 2
DEFAULT_MONTHS == 6

\* The series of values, in row order.
Series == {
    <<Num(100), Num(120), Num(140), Num(160)>>,
    <<Num(160), Num(140), Num(120), Num(100)>>,
    <<Num(99), Num(100), Num(101)>>,
    <<Num(100), Num(100), Num(101)>>,
    <<Num(-5), Num(-5), Num(-5)>>,
    <<Num(0), Num(3), Num(-3), Num(0)>>,
    <<Num(5), NaN, Num(7), Num(9)>>,
    <<Num(5), NaN, Num(7)>>,
    <<Num(1), Num(2)>>,
    <<Str("12"), Str("13"), Str("14")>>,
    <<>> }

\* The dates of up to four rows: ascending timestamps, descending serials, and
\* a mix of a text date, a text that is no date, a missing date and a small number.
DateColumns == {
    <<Ts(45306), Ts(45337), Ts(45366), Ts(45397)>>,
    <<Num(45400), Num(45300), Num(45200), Num(45100)>>,
    <<Str("2024-02-15"), Str("soon"), Str("2024-01-15"), Num(7)>>,
    <<Ts(45306), NaT, Ts(45337), Ts(45366)>> }

Date == Chars("date")
Units == Chars("units")
TotalSales == Chars("Total Sales")

\* The frame of a series: its dates, the series as units, and a constant column.
SeriesFrame(dates, ys) ==
    DataFrame(<<Date, Units, TotalSales>>,
              <<"obj", IF \E k \in DOMAIN ys : ys[k].t = "str" THEN "obj" ELSE "num", "num">>,
              [k \in DOMAIN ys |-> <<dates[k], ys[k], Num(1)>>])

ColumnChoices == {
    [date_columns |-> <<Date>>, numeric_columns |-> <<Units>>],
    [date_columns |-> <<Date>>, numeric_columns |-> <<Units, TotalSales>>],
    [date_columns |-> <<Date>>, numeric_columns |-> <<Date, Units>>],
    [date_columns |-> <<>>, numeric_columns |-> <<Units>>],
    [date_columns |-> <<Date>>, numeric_columns |-> <<>>],
    [date_columns |-> <<Chars("month")>>, numeric_columns |-> <<Units>>],
    [date_columns |-> <<Date>>, numeric_columns |-> <<Chars("price")>>] }

ForecastInputs ==
    {[data |-> [date_columns |-> c.date_columns, numeric_columns |-> c.numeric_columns,
                df |-> SeriesFrame(d, ys)],
      months_ahead |-> m, now |-> now] :
        c \in ColumnChoices, d \in DateColumns, ys \in Series,
        m \in (0..MaxMonths) \cup {DEFAULT_MONTHS}, now \in NowDays}

InitForecast == ServerInit /\ op = "none" /\ arg \in ForecastInputs /\ res = Nothing

Forecast == Apply("forecast", forecast(arg.data, arg.months_ahead, arg.now))

NextForecast == Forecast

SpecForecast == InitForecast /\ [][NextForecast]_vars

(************************ calculate_chart_data, checked **********************)

\* Frames have up to MaxGroups categories and up to MaxWide numeric columns.
MaxGroups == 11
MaxWide == 7

Code == Chars("Code")
Amount == Chars("Amount")
Note == Chars("Note")

NoteOf(k) == IF k % 3 = 0 THEN Str("Eng") ELSE IF k % 3 = 1 THEN Str("Ops") ELSE Str("Sales")

\* A frame of g categories (numbered codes): a first row for each, a second
\* row for two out of three, and, with holes, a row without a code and a row
\* of category 1 without an amount.
GroupFrame(g, holes) ==
    LET first == [k \in 1..g |-> <<Num(k), Num(10 * k - 30), NoteOf(k)>>]
        second == SelectSeq(first, LAMBDA row : row[1].n % 3 # 1)
        again == [k \in DOMAIN second |-> <<second[k][1], second[k][1], Str("Eng")>>]
        gaps == IF holes THEN << <<NaN, Num(5), Str("Ops")>>, <<Num(1), NaN, NaN>> >> ELSE <<>>
    IN  DataFrame(<<Code, Amount, Note>>, <<"num", "num", "obj">>, first \o again \o gaps)

\* A frame of a text column and k numeric columns.
WideFrame(k) ==
    DataFrame(<<Note>> \o NamesFrom(0, k),
              <<"obj">> \o [i \in 1..k |-> "num"],
              << <<Str("Eng")>> \o [i \in 1..k |-> Num(i)],
                 <<Str("Ops")>> \o [i \in 1..k |-> Num(2 * i)] >>)

HrFrame == ParsedFrame(HrCsv.content)

ChartFrames ==
    {GroupFrame(g, holes) : g \in 0..MaxGroups, holes \in BOOLEAN}
        \cup {WideFrame(k) : k \in 0..MaxWide}
        \cup {HrFrame}

ChartRequests ==
    {Chart(type, x, y) :
        type \in {"bar", "pie", "line", "area", "scatter", "heatmap", "boxplot", "radar",
                  "waterfall"},
        x \in {Code, Note, Department, Chars("Missing")},
        y \in {Amount, Note, Code, Salary, <<>>}}

ChartInputs == {[df |-> df, req |-> req] : df \in ChartFrames, req \in ChartRequests}

InitChart == ServerInit /\ op = "none" /\ arg \in ChartInputs /\ res = Nothing

CalculateChartData == Apply("calculate_chart_data", calculate_chart_data(arg.df, arg.req))

NextChart == CalculateChartData

SpecChart == InitChart /\ [][NextChart]_vars

(************************ spreadsheets, checked ******************************)

\* A sheet has up to MaxPreamble rows above its table.
MaxPreamble == 5

TitleRow == <<Txt("Budget 2025"), NaN, NaN, NaN>>
PairRow == <<Txt("Region"), Txt("North"), NaN, NaN>>
BlankRow == <<NaN, NaN, NaN, NaN>>

\* The tables of the sheets: a header row of 3 or 4 names over two rows, the
\* date column holding a serial number, a text and a missing cell.
SheetTables == {
    <<>>,
    << <<Txt("Name"), Txt("Net Profit"), Txt("Hire Date"), NaN>>,
       <<Txt("Eng"), Num(10), Num(45000), NaN>>,
       <<Txt("Ops"), Num(20), NaN, NaN>> >>,
    << <<Txt("Name"), Txt("Amount"), Txt("Start Date"), Txt("Note")>>,
       <<Txt("Eng"), Num(10), Num(45000), Txt("x")>>,
       <<Txt("Ops"), Num(20), Txt("soon"), NaN>> >> }

\* The sheets: rows of a title, of a pair of texts or of nothing, then a table.
Sheets ==
    {p \o t : p \in BoundedSeq({TitleRow, PairRow, BlankRow}, MaxPreamble),
              t \in SheetTables} \ {<<>>}

\* The upload of a sheet: a workbook whose first row holds the header texts.
SheetUpload(filename, sheet) ==
    Upload(filename, "excel",
           [i \in DOMAIN Head(sheet) |->
               IF IsNull(Head(sheet)[i]) THEN <<>> ELSE Head(sheet)[i].s],
           Tail(sheet))

SheetInputs ==
    {SheetUpload(n, sheet) : n \in {Chars("data.xls"), Chars("data.xlsx")}, sheet \in Sheets}

InitSheet == ServerInit /\ op = "none" /\ arg \in SheetInputs /\ res = Nothing

ParseExcelSmart == Apply("_parse_excel_smart", _parse_excel_smart(arg.content))

IngestSheet == Apply("analyze_file", AnalyzeLoad(arg))

NextSheet == ParseExcelSmart \/ IngestSheet

SpecSheet == InitSheet /\ [][NextSheet]_vars

(************************ cleaning rules, checked ****************************)

\* The frames the rules are applied to: the tables as read_csv reads them and
\* the sheets as _parse_excel_smart reads them.
RuleFrames ==
    {ParsedFrame([format |-> "csv", columns |-> t.columns, rows |-> t.rows]) : t \in Tables}
        \cup {_parse_excel_smart(u.content).df : u \in SheetInputs}

RuleInputs == {[df |-> df, domain |-> d] : df \in RuleFrames, d \in DomainHints}

InitRules == ServerInit /\ op = "none" /\ arg \in RuleInputs /\ res = Nothing

ApplyCleaningRules ==
    Apply("_apply_cleaning_rules", _apply_cleaning_rules(arg.df, RulesFor(arg.domain)))

NextRules == ApplyCleaningRules

SpecRules == InitRules /\ [][NextRules]_vars

(************************ insights, checked **********************************)

\* The correlations an insight is asked for: between two hundredths (37 and 63
\* parts of a hundred above one), of either sign, and the values 0, 0.5 and 1,
\* for which corr * 100 is exact in floating point.
InsightCorrs ==
    {sign * ((CorrUnit \div 100) * h + d) :
        sign \in {-1, 1}, h \in 0..99, d \in {(37 * CorrUnit) \div 10000, (63 * CorrUnit) \div 10000}}
    \cup {0, CorrUnit \div 2, -(CorrUnit \div 2), CorrUnit, -CorrUnit}

InsightInputs ==
    {[col1 |-> a, col2 |-> b, corr |-> c] :
        a \in {Chars("age"), Chars("sales")},
        b \in {Chars("cost"), Chars("profit"), Chars("revenue")},
        c \in InsightCorrs}

InitInsight == ServerInit /\ op = "none" /\ arg \in InsightInputs /\ res = Nothing

GenerateInsight ==
    Apply("_generate_insight", _generate_insight(arg.col1, arg.col2, arg.corr))

NextInsight == GenerateInsight

SpecInsight == InitInsight /\ [][NextInsight]_vars

(************************ pages of a stored dataset **************************)

\* Stored datasets have at most MaxRows rows.
MaxRows == 5
\* /data is asked with limit 1..MaxLimit and page 1..MaxPages.
MaxLimit == 3
MaxPages == 7

\* A cleaned dataset of n rows, told apart by their Code; with hole, the last
\* row lacks its Amount.
PageFrame(n, hole) ==
    DataFrame(<<Code, Amount>>, <<"num", "num">>,
              [k \in 1..n |-> <<Num(k), IF hole /\ k = n THEN NaN ELSE Num(10 * k)>>])

\* A cleaned dataset of n rows with a column of dates; with hole, the last row
\* lacks its Date.
DatedFrame(n, hole) ==
    DataFrame(<<Code, Date>>, <<"num", "date">>,
              [k \in 1..n |-> <<Num(k), IF hole /\ k = n THEN NaT ELSE Ts(UNIX_EPOCH_DAY + k)>>])

PageFrames ==
    {PageFrame(n, hole) : n \in 0..MaxRows, hole \in BOOLEAN}
        \cup {DatedFrame(n, hole) : n \in 1..MaxRows, hole \in BOOLEAN}

\* The service after one /analyze request stored its dataset; the response of
\* that request carried the id unless a missing cell or a timestamp made it
\* a 500.
InitPage ==
    /\ \E df \in PageFrames :
          /\ SESSION_STORE = StorePut(<<>>, 1, df)
          /\ returned = IF \E k \in DOMAIN df.rows : \E i \in DOMAIN df.rows[k] :
                              IsNull(df.rows[k][i]) \/ df.rows[k][i].t = "ts"
                        THEN {} ELSE {1}
    /\ inflight = [r \in Slots |-> NoRequest]
    /\ issued = {1}
    /\ started = 1
    /\ last = Nothing
    /\ NoCall

\* GET /data?session_id=..&page=..&limit=..
GetDataPageOf ==
    /\ \E session_id \in Uuids : \E page \in 1..MaxPages : \E limit \in 1..MaxLimit :
          last' = get_data_page(session_id, page, limit)
    /\ UNCHANGED <<SESSION_STORE, inflight, issued, returned, started, call_vars>>

NextPage == GetDataPageOf

SpecPage == InitPage /\ [][NextPage]_vars

(************************ claims on the cleaned dataset **********************)

\* C11: in every result of clean the sets numeric_columns, categorical_columns
\* and date_columns are pairwise disjoint.
C11_ClassificationDisjoint ==
    (op = "clean" /\ ~res.raised) =>
        /\ Range(res.numeric_columns) \cap Range(res.date_columns) = {}
        /\ Range(res.numeric_columns) \cap Range(res.categorical_columns) = {}
        /\ Range(res.categorical_columns) \cap Range(res.date_columns) = {}

\* The source rows of a file that have a cell present, in order.
PresentRows(content) ==
    SelectSeq(content.rows, LAMBDA row : \E i \in DOMAIN row : ~IsNull(row[i]))

\* C20: every source row that is empty in all columns is removed: the dataset
\* of clean (for every domain hint, with or without text columns) and the
\* frame of analyze hold the source rows that have a cell present, as many and
\* in their order, and no row without a present cell.
C20_EmptyRowsRemoved ==
    /\ (op = "clean" /\ ~res.raised) =>
          /\ res.row_count = Len(PresentRows(arg.content))
          /\ Len(res.rows) = Len(PresentRows(arg.content))
    /\ (op = "analyze_file" /\ ~res.raised) => res.rows = PresentRows(arg.content)

(************************ claims on forecast *********************************)

\* The rows of the input frame with a value in both columns.
RemainingRows(data, date_col, value_col) ==
    SelectSeq(data.df.rows, LAMBDA row :
        /\ row[ColIndex(data.df, date_col)].t \notin {"nan", "nat"}
        /\ row[ColIndex(data.df, value_col)].t \notin {"nan", "nat"})

\* The preconditions of forecast fail on this input.
PreconditionsFail(data) ==
    \/ data.date_columns = <<>>
    \/ data.numeric_columns = <<>>
    \/ ~HasCol(data.df, data.date_columns[1])
    \/ ~HasCol(data.df, ValueColumn(data.numeric_columns))
    \/ Len(RemainingRows(data, data.date_columns[1],
                         ValueColumn(data.numeric_columns))) < 3

\* forecast never raises and returns none whenever a precondition fails; when
\* none fails and the value column is another column than the date column, it
\* returns a forecast result.
C14_NoneWhenPreconditionsFail ==
    op = "forecast" =>
        /\ ~res.raised
        /\ PreconditionsFail(arg.data) => res.none
        /\ (/\ ~PreconditionsFail(arg.data)
            /\ arg.data.date_columns[1] # ValueColumn(arg.data.numeric_columns)) => ~res.none

\* C14: forecast never raises; it returns none exactly when there is no date
\* column, no numeric column, the chosen date or value column is absent from
\* the table, or fewer than 3 rows have a value in both columns, and returns
\* a forecast result otherwise.
C14_ForecastPreconditions ==
    op = "forecast" =>
        /\ ~res.raised
        /\ res.none <=> PreconditionsFail(arg.data)

\* The fitted values of a result, in fitted order.
Fitted(result) == [k \in DOMAIN result.historical_data |-> result.historical_data[k].value]

\* The least-squares slope of y over 0..n-1 is SlopeN(y) / SlopeD(y):
\* N = n * sum(x*y) - sum(x) * sum(y), D = n * sum(x*x) - sum(x)^2.
SlopeN(y) ==
    Len(y) * SumSeq([k \in DOMAIN y |-> (k - 1) * y[k]])
        - SumSeq([k \in DOMAIN y |-> k - 1]) * SumSeq(y)

SlopeD(y) ==
    Len(y) * SumSeq([k \in DOMAIN y |-> (k - 1) * (k - 1)])
        - SumSeq([k \in DOMAIN y |-> k - 1]) * SumSeq([k \in DOMAIN y |-> k - 1])

\* C15: with slope s and mean m of the fitted series, the trend is 'Stable'
\* if and only if |s| < 0.01 * m, and otherwise 'Upward' when s > 0 and
\* 'Downward' when s <= 0; the series 100, 120, 140, 160 is 'Upward' with a
\* slope above zero.
C15_TrendRule ==
    (op = "forecast" /\ ~res.none) =>
        LET y == Fitted(res)
            stable == 100 * Abs(SlopeN(y)) * Len(y) < SlopeD(y) * SumSeq(y)
        IN  /\ res.trend = "Stable" <=> stable
            /\ ~stable => res.trend = (IF SlopeN(y) > 0 THEN "Upward" ELSE "Downward")
            /\ y = <<100, 120, 140, 160>> => res.trend = "Upward" /\ res.slope > 0

\* The series 100, 120, 140, 160 was fitted and found to rise.
C15_UpwardWitness ==
    /\ op = "forecast"
    /\ ~res.none
    /\ Fitted(res) = <<100, 120, 140, 160>>
    /\ res.trend = "Upward"

\* slope * index + intercept of the least-squares line of y, as the
\* fraction LineN(y, index) / LineD(y).
LineN(y, index) ==
    SlopeN(y) * index * Len(y) + SumSeq(y) * SlopeD(y)
        - SlopeN(y) * SumSeq([k \in DOMAIN y |-> k - 1])

LineD(y) == Len(y) * SlopeD(y)

\* C16: a forecast result has exactly months_ahead forecast points (6 unless
\* asked otherwise); the k-th is the line's value at index n-1+k floored at
\* zero (to the nearest hundredth), so no forecast value is below zero; every
\* forecast point has is_forecast true, every historical point false.
C16_ForecastPoints ==
    (op = "forecast" /\ ~res.none) =>
        LET y == Fitted(res)
            n == Len(y)
        IN  /\ Len(res.forecast_data) = arg.months_ahead
            /\ \A k \in DOMAIN res.forecast_data :
                  LET v == res.forecast_data[k].value
                      pn == LineN(y, n - 1 + k)
                  IN  /\ v >= 0
                      /\ pn <= 0 => v = 0
                      /\ pn > 0 => Abs(200 * pn - 2 * v * LineD(y)) <= LineD(y)
                      /\ res.forecast_data[k].is_forecast
            /\ \A k \in DOMAIN res.historical_data :
                  ~res.historical_data[k].is_forecast

\* The default six points of a falling series, the last of them floored at zero.
C16_FlooredWitness ==
    /\ op = "forecast"
    /\ ~res.none
    /\ arg.months_ahead = DEFAULT_MONTHS
    /\ Len(res.forecast_data) = DEFAULT_MONTHS
    /\ LineN(Fitted(res), Len(Fitted(res)) + 5) < 0
    /\ res.forecast_data[1].value > 0
    /\ res.forecast_data[6].value = 0

(************************ claims on chart data *******************************)

\* The rows of df whose cell in column col is key.
RowsOf(df, col, key) == {k \in DOMAIN df.rows : df.rows[k][ColIndex(df, col)] = key}

\* The distinct values of a column (a missing cell is no value).
DistinctValues(df, col) ==
    {df.rows[k][ColIndex(df, col)] : k \in DOMAIN df.rows} \ {NaN, NaT}

\* The sum of the numbers of column col over a set of rows.
RECURSIVE RowSum(_, _, _)
RowSum(df, col, rows) ==
    IF rows = {} THEN 0
    ELSE LET k == CHOOSE r \in rows : TRUE
             cell == df.rows[k][ColIndex(df, col)]
         IN  (IF cell.t = "num" THEN cell.n ELSE 0) + RowSum(df, col, rows \ {k})

\* C17: for bar and pie, calculate_chart_data returns one record per distinct
\* x value (as many as the cap of 10 lets through): with a numeric y column
\* the record of an x value holds the sum of y over its rows, otherwise the
\* y key holds the number of rows with that x value; for the rows (Eng,100),
\* (Eng,200), (Sales,50) on (Department, Salary) the records are
\* (Eng, 300), (Sales, 50).
C17_BarPieAggregates ==
    (op = "calculate_chart_data" /\ arg.req.chart_type \in {"bar", "pie"} /\ ~res.raised) =>
        LET df == arg.df
            x == arg.req.x_axis_col
            y == arg.req.y_axis_col
            numeric == y # <<>> /\ df.dtypes[ColIndex(df, y)] = "num"
            distinct == DistinctValues(df, x)
            Count(key) == Cardinality(RowsOf(df, x, key))
        IN  /\ Len(res.data) = Min2(10, Cardinality(distinct))
            /\ numeric =>
                  /\ \A i \in DOMAIN res.data :
                        /\ res.data[i].x \in distinct
                        /\ res.data[i].y = Num(RowSum(df, y, RowsOf(df, x, res.data[i].x)))
                  /\ \A i, j \in DOMAIN res.data : res.data[i].x = res.data[j].x => i = j
            /\ (~numeric /\ x # y) =>
                  /\ \A i \in DOMAIN res.data :
                        /\ res.data[i].x \in distinct
                        /\ res.data[i].y = Num(Count(res.data[i].x))
                  /\ \A i, j \in DOMAIN res.data : res.data[i].x = res.data[j].x => i = j
            /\ (~numeric /\ x = y) =>
                  \A i \in DOMAIN res.data :
                      Cardinality({j \in DOMAIN res.data : res.data[j].y = res.data[i].y})
                          <= Cardinality({key \in distinct : Num(Count(key)) = res.data[i].y})
            /\ (df = HrFrame /\ x = Department /\ y = Salary) =>
                  res.data = <<[x |-> Str("Eng"), y |-> Num(300)],
                               [x |-> Str("Sales"), y |-> Num(50)]>>

\* The salaries of the three rows were summed per department.
C17_SalaryWitness ==
    /\ op = "calculate_chart_data"
    /\ arg.req.chart_type = "bar"
    /\ arg.df.rows = << <<Str("Eng"), Num(100)>>, <<Str("Eng"), Num(200)>>,
                        <<Str("Sales"), Num(50)>> >>
    /\ arg.req.x_axis_col = Department /\ arg.req.y_axis_col = Salary
    /\ ~res.raised
    /\ Len(res.data) = 2

\* C18: the output of calculate_chart_data keeps to its caps: bar and pie at
\* most 10 records; heatmap k*k cells for the first k <= 6 numeric columns,
\* so at most 36, and none when k < 2; waterfall at most 6 records; boxplot
\* at most 5 records and none for a category with fewer than 2 observations
\* (an observation being a row of the category).
C18_TopNCaps ==
    (op = "calculate_chart_data" /\ ~res.raised) =>
        LET type == arg.req.chart_type
            k == Min2(6, Cardinality({i \in DOMAIN arg.df.dtypes : arg.df.dtypes[i] = "num"}))
        IN  /\ type \in {"bar", "pie"} => Len(res.data) <= 10
            /\ type = "heatmap" =>
                  /\ Len(res.data) = (IF k < 2 THEN 0 ELSE k * k)
                  /\ Len(res.data) <= 36
            /\ type = "waterfall" => Len(res.data) <= 6
            /\ type = "boxplot" =>
                  /\ Len(res.data) <= 5
                  /\ \A i \in DOMAIN res.data :
                        Cardinality(RowsOf(arg.df, arg.req.x_axis_col, res.data[i].name)) >= 2

\* Six categories or more had two rows each and the boxplot came back with
\* five records.
C18_BoxplotWitness ==
    /\ op = "calculate_chart_data"
    /\ arg.req.chart_type = "boxplot"
    /\ ~res.raised
    /\ HasCol(arg.df, arg.req.x_axis_col)
    /\ Cardinality({key \in DistinctValues(arg.df, arg.req.x_axis_col) :
                        Cardinality(RowsOf(arg.df, arg.req.x_axis_col, key)) >= 2}) > 5
    /\ Len(res.data) = 5

(************************ claims on chart validation *************************)

\* C19: a blueprint whose charts are of the types bar, line, area, pie,
\* scatter, heatmap, boxplot, radar and waterfall passes validation, waterfall
\* included, so that each of its charts is there to be handed to
\* calculate_chart_data.
C19_NineTypesAccepted ==
    LET v == CarriedJson(arg)
    IN  (/\ op = "analyze_dataset_structure"
         /\ CarriesJson(arg)
         /\ v.type = "object"
         /\ v.complete
         /\ v.domain \in {"HR", "Sales", "Finance", "Inventory", "General"}
         /\ \A i \in DOMAIN v.recommended_charts :
               /\ v.recommended_charts[i].complete
               /\ v.recommended_charts[i].chart_type \in
                     {"bar", "line", "area", "pie", "scatter", "heatmap", "boxplot",
                      "radar", "waterfall"})
        => /\ Len(res.blueprint.recommended_charts) = Len(v.recommended_charts)
           /\ \A i \in DOMAIN v.recommended_charts :
                 res.blueprint.recommended_charts[i].chart_type
                     = v.recommended_charts[i].chart_type

(************************ claims on the header row ***************************)

\* The index of the first of the first 5 rows of a sheet with 3 non-empty
\* cells or more, 0 when there is no such row.
ExpectedHeaderRow(raw) ==
    LET proper == {i \in 0..(Min2(5, Len(raw)) - 1) :
                      Cardinality({j \in DOMAIN raw[i + 1] :
                                      raw[i + 1][j].t \notin {"nan", "nat"}}) >= 3}
    IN  IF proper = {} THEN 0 ELSE CHOOSE i \in proper : \A k \in proper : i <= k

\* The cleaner's reader took the expected header row.
C21_CleanerHeaderRow ==
    op = "_parse_excel_smart" => res.header_row = ExpectedHeaderRow(RawRows(arg.content))

\* C21: for an .xls or .xlsx file, on every ingestion path, the header row is
\* the first of the first 5 rows with 3 non-empty cells or more (row 0 when
\* there is none): the cleaner's reader takes that row, and the table /analyze
\* loads has its column names from that row; a title row followed by a proper
\* header row gives row 1.
C21_HeaderRowChosen ==
    LET raw == RawRows(arg.content)
        header_row == ExpectedHeaderRow(raw)
    IN  /\ op = "_parse_excel_smart" => res.header_row = header_row
        /\ (op = "analyze_file" /\ ~res.raised) =>
              \A i \in DOMAIN raw[header_row + 1] :
                  raw[header_row + 1][i].t = "str" => res.headers[i] = raw[header_row + 1][i].s

(************************ claims on the rule log *****************************)

\* The rule an entry of the log belongs to ("none" for the closing summary).
RuleOfEntry(e) ==
    IF e.entry = "[CURRENCY]" THEN "remove_currency_symbols"
    ELSE IF e.entry = "[PERCENT]" THEN "convert_percentages"
    ELSE IF e.entry = "[NULL]" THEN "handle_nulls"
    ELSE "none"

\* The place of a rule in the rule list.
RulePlace(rules, rule) == CHOOSE i \in DOMAIN rules : rules[i] = rule

\* The entries of the log stand in the order of their rules, the summary last.
C22_EntriesInRuleOrder ==
    (op = "_apply_cleaning_rules" /\ ~res.raised) =>
        LET rules == RulesFor(arg.domain)
        IN  /\ RuleOfEntry(res.logs[Len(res.logs)]) = "none"
            /\ \A j, k \in 1..(Len(res.logs) - 1) :
                  j < k => RulePlace(rules, RuleOfEntry(res.logs[j]))
                              <= RulePlace(rules, RuleOfEntry(res.logs[k]))

\* C22: for every rule of the list the domain hint selects (the general list
\* for an unknown hint), the log of _apply_cleaning_rules has an entry of that
\* rule, also when the rule changed nothing, and the entries stand in rule order.
C22_EveryRuleLogged ==
    (op = "_apply_cleaning_rules" /\ ~res.raised) =>
        LET rules == RulesFor(arg.domain)
        IN  /\ \A r \in DOMAIN rules :
                  \E k \in DOMAIN res.logs : RuleOfEntry(res.logs[k]) = rules[r]
            /\ \A j, k \in 1..(Len(res.logs) - 1) :
                  j < k => RulePlace(rules, RuleOfEntry(res.logs[j]))
                              <= RulePlace(rules, RuleOfEntry(res.logs[k]))

(************************ claims on insights *********************************)

\* The number of templates of a bucket.
TemplateCount(bucket) == IF bucket = "strong" THEN 3 ELSE IF bucket = "weak" THEN 4 ELSE 1

\* The bucket of a correlation: strong above 0.7, weak below 0.3, else moderate.
BucketOf(c) ==
    IF 10 * (IF c < 0 THEN -c ELSE c) > 7 * CorrUnit THEN "strong"
    ELSE IF 10 * (IF c < 0 THEN -c ELSE c) < 3 * CorrUnit THEN "weak"
    ELSE "moderate"

\* r * 100 cut off towards zero, and rounded to the nearest integer.
Truncated100(c) ==
    CHOOSE t \in -100..100 :
        \/ c >= 0 /\ t * (CorrUnit \div 100) <= c /\ c < (t + 1) * (CorrUnit \div 100)
        \/ c < 0 /\ (t - 1) * (CorrUnit \div 100) < c /\ c <= t * (CorrUnit \div 100)

Nearest100(c) ==
    CHOOSE t \in -100..100 :
        /\ 2 * (c - t * (CorrUnit \div 100)) <= CorrUnit \div 100
        /\ 2 * (t * (CorrUnit \div 100) - c) <= CorrUnit \div 100

\* C23 as it stands: the index of the template is
\* (len(col1) + len(col2) + round(r * 100)) mod templateCount.
C23_RoundedIndex ==
    op = "_generate_insight" =>
        /\ res.bucket = BucketOf(arg.corr)
        /\ res.index = (Len(arg.col1) + Len(arg.col2) + Nearest100(arg.corr))
                           % TemplateCount(res.bucket)

\* C23: _generate_insight picks its template as a function of its input: the
\* bucket is strong when |r| > 0.7, weak when |r| < 0.3, else the single
\* moderate template, and the index in the bucket is (len(col1) + len(col2) +
\* r * 100 cut off towards zero) mod templateCount, a valid index also for
\* negative r.
C23_TemplateIndex ==
    op = "_generate_insight" =>
        /\ res.bucket = BucketOf(arg.corr)
        /\ res.index \in 0..(TemplateCount(res.bucket) - 1)
        /\ res.index = (Len(arg.col1) + Len(arg.col2) + Truncated100(arg.corr))
                           % TemplateCount(res.bucket)

\* A strong negative correlation whose cut-off and rounded hundredths differ
\* got the third template.
C23_NegativeWitness ==
    /\ op = "_generate_insight"
    /\ 10 * arg.corr < -7 * CorrUnit
    /\ Truncated100(arg.corr) # Nearest100(arg.corr)
    /\ res.bucket = "strong"
    /\ res.index = 2

(************************ claims on the waterfall ****************************)

\* C24: for a waterfall over a numeric y column the bars are groups of x, each
\* with the sum of its y as displayValue, in descending order of the sums (no
\* group left out has a larger sum than a bar); the first bar starts at 0, each
\* bar ends at its start plus its sum, each later bar starts where the one
\* before ended, and isNegative says that the sum is below zero.  A y column
\* that is not numeric gives an empty result.
C24_WaterfallChain ==
    (/\ op = "calculate_chart_data"
     /\ arg.req.chart_type = "waterfall"
     /\ HasCol(arg.df, arg.req.y_axis_col)) =>
        LET df == arg.df
            x == arg.req.x_axis_col
            y == arg.req.y_axis_col
            bars == res.data
            Total(key) == RowSum(df, y, RowsOf(df, x, key))
        IN  IF df.dtypes[ColIndex(df, y)] # "num"
            THEN ~res.raised /\ bars = <<>>
            ELSE ~res.raised =>
                /\ \A i \in DOMAIN bars :
                      /\ bars[i].name \in DistinctValues(df, x)
                      /\ bars[i].displayValue = Total(bars[i].name)
                      /\ bars[i].value[2] = bars[i].value[1] + bars[i].displayValue
                      /\ bars[i].isNegative <=> bars[i].displayValue < 0
                      /\ i = 1 => bars[i].value[1] = 0
                      /\ i > 1 => /\ bars[i].value[1] = bars[i - 1].value[2]
                                  /\ bars[i].displayValue <= bars[i - 1].displayValue
                /\ \A i, j \in DOMAIN bars : bars[i].name = bars[j].name => i = j
                /\ Len(bars) = Min2(6, Cardinality(DistinctValues(df, x)))
                /\ \A key \in DistinctValues(df, x) :
                      (\A i \in DOMAIN bars : bars[i].name # key)
                          => \A i \in DOMAIN bars : Total(key) <= bars[i].displayValue

\* A chain of three bars or more that ends below where its last bar started,
\* cut out of more groups than it shows.
C24_ChainWitness ==
    /\ op = "calculate_chart_data"
    /\ arg.req.chart_type = "waterfall"
    /\ ~res.raised
    /\ Len(res.data) >= 3
    /\ res.data[1].displayValue > 0
    /\ res.data[Len(res.data)].isNegative
    /\ res.data[Len(res.data)].value[2] < res.data[Len(res.data)].value[1]
    /\ res.data[2].value[1] = res.data[1].displayValue

(************************ claims on the session store ************************)

\* A step in which /analyze request r is answered.
Answered(r) == inflight[r].pc = "received" /\ inflight'[r].pc = "done"

C25_ErrorStep ==
    \A r \in Slots :
        (Answered(r) /\ inflight'[r].response.status # 200) => SESSION_STORE' = SESSION_STORE

\* C25: an /analyze request answered with an error leaves SESSION_STORE as it
\* was before the request; a session is registered only by an analysis whose
\* response is returned successfully.
C25_ErrorLeavesStoreUnchanged == [][C25_ErrorStep]_vars

\* What /data and /chat answer about a stored session is that session's dataset.
C26_Found ==
    (last' # last /\ last'.kind \in {"data", "chat"}
                  /\ last'.session_id \in DOMAIN SESSION_STORE) =>
        /\ last'.status # 404
        /\ last'.kind = "chat" => last'.about = SESSION_STORE[last'.session_id]
        /\ (last'.kind = "data" /\ last'.status = 200) =>
              /\ last'.total_rows = Len(SESSION_STORE[last'.session_id].rows)
              /\ \A k \in DOMAIN last'.data :
                    last'.data[k] = SESSION_STORE[last'.session_id].rows[
                                        (last'.page - 1) * last'.limit + k]

\* The count /health reported is not above the number of sessions there are.
C26_Counted ==
    last.kind = "health" => last.sessions_active <= Cardinality(DOMAIN SESSION_STORE)

\* A step keeps every session with its dataset, and changes the store only
\* when it is a step of an /analyze request; /health counts the sessions.
C26_Step ==
    /\ \A id \in DOMAIN SESSION_STORE :
          id \in DOMAIN SESSION_STORE' /\ SESSION_STORE'[id] = SESSION_STORE[id]
    /\ inflight' = inflight => SESSION_STORE' = SESSION_STORE
    /\ (last'.kind = "health" /\ last' # last) =>
          last'.sessions_active = Cardinality(DOMAIN SESSION_STORE)
    /\ C26_Found

\* C26: sessions are never removed or overwritten: a stored dataset stays
\* under its id through every later analyze, data, chat and health request,
\* /data and /chat with that id find that dataset, /data, /chat and /health
\* leave SESSION_STORE unchanged, and the sessions_active count of /health
\* never decreases.
C26_SessionsKept == []C26_Counted /\ [][C26_Step]_vars

\* /data answered a page of one session while the store held a second session
\* with another dataset and no /analyze request was open.
C26_LaterReadWitness ==
    /\ last.kind = "data"
    /\ last.status = 200
    /\ last.data # <<>>
    /\ Cardinality(DOMAIN SESSION_STORE) = 2
    /\ \A r \in Slots : inflight[r].pc = "idle"
    /\ \E id \in DOMAIN SESSION_STORE :
          id # last.session_id /\ SESSION_STORE[id] # SESSION_STORE[last.session_id]

(************************ claims on the charts of a response *****************)

\* C28: the charts of an /analyze response are the recommended charts whose
\* aggregation returned data without raising, in the order of the blueprint,
\* and the i-th of them (from 0) has the id chart_i, whatever was skipped or
\* came back empty before it.
C28_ChartIds ==
    \A r \in Slots :
        (inflight[r].pc = "done" /\ inflight[r].response.status = 200) =>
            LET a == inflight[r]
                reqs == a.response.content.blueprint.recommended_charts
                df == SESSION_STORE[a.session_id]
                good == {i \in DOMAIN reqs :
                            /\ ~calculate_chart_data(df, reqs[i]).raised
                            /\ calculate_chart_data(df, reqs[i]).data # <<>>}
                charts == a.response.content.charts
            IN  /\ Len(charts) = Cardinality(good)
                /\ \A k \in DOMAIN charts :
                      /\ charts[k].id = k - 1
                      /\ \E i \in good :
                            /\ Cardinality({j \in good : j < i}) = k - 1
                            /\ charts[k].title = reqs[i].title
                            /\ charts[k].type = reqs[i].chart_type
                            /\ charts[k].x_key = reqs[i].x_axis_col
                            /\ charts[k].y_key = reqs[i].y_axis_col
                            /\ charts[k].data = calculate_chart_data(df, reqs[i]).data

\* A response with two charts, the second behind a request that raised and
\* one that came back empty.
C28_GapWitness ==
    \E r \in Slots :
        /\ inflight[r].pc = "done"
        /\ inflight[r].response.status = 200
        /\ Len(inflight[r].response.content.charts) = 2
        /\ inflight[r].response.content.charts[2].id = 1
        /\ \E i, j \in DOMAIN inflight[r].attempts :
              /\ inflight[r].attempts[i] = "raised"
              /\ inflight[r].attempts[j] = "empty"
              /\ \E k \in DOMAIN inflight[r].attempts :
                    k > i /\ k > j /\ inflight[r].attempts[k] = "added"

(************************ claims on the pages of /data ***********************)

\* ceil(n / L) for L >= 1
CeilDiv(n, L) == (n + L - 1) \div L

\* The rows of pages 1..p of /data put one after the other.
RECURSIVE PagesUpTo(_, _, _)
PagesUpTo(rows, limit, p) ==
    IF p = 0 THEN <<>>
    ELSE PagesUpTo(rows, limit, p - 1) \o iloc(rows, (p - 1) * limit, p * limit)

\* The rows get_data_page selects: page p holds the rows at the zero-based
\* places (p-1)*L .. min(p*L, n)-1, pages 1..ceil(n/L) together hold every row
\* once, and a page that is rendered reports them with total_rows = n; a page
\* is not rendered (500) only when it holds a missing number (NaN).
C27_SelectedRows ==
    (last.kind = "data" /\ last.session_id \in DOMAIN SESSION_STORE) =>
        LET rows == SESSION_STORE[last.session_id].rows
            n == Len(rows)
        IN  /\ last.status \in {200, 500}
            /\ last.status = 500 =>
                  \E k \in DOMAIN rows : \E i \in DOMAIN rows[k] : rows[k][i] = NaN
            /\ (\A k \in DOMAIN rows : \A i \in DOMAIN rows[k] : rows[k][i] # NaN) =>
                  last.status = 200
            /\ last.status = 200 =>
                  LET first == (last.page - 1) * last.limit
                      beyond == Min2(last.page * last.limit, n)
                  IN  /\ last.total_rows = n
                      /\ Len(last.data) = IF beyond > first THEN beyond - first ELSE 0
                      /\ \A k \in DOMAIN last.data : last.data[k] = rows[first + k]
                      /\ last.page > CeilDiv(n, last.limit) => last.data = <<>>
                      /\ last.page <= CeilDiv(n, last.limit) => last.data # <<>>
                      /\ PagesUpTo(rows, last.limit, CeilDiv(n, last.limit)) = rows

SomeElementFails(data) ==
    \/ ~data.complete
    \/ data.domain \notin BLUEPRINT_DOMAINS
    \/ \E i \in DOMAIN data.recommended_charts :
          \/ ~data.recommended_charts[i].complete
          \/ data.recommended_charts[i].chart_type \notin CHART_TYPES

\* The charts the loop of analyze_file makes of a blueprint on the HR dataset.
ChartsMade(blueprint) ==
    ChartLoop(HrFrame, blueprint.recommended_charts,
              [charts |-> <<>>, attempts |-> <<>>, raised |-> FALSE]).charts

\* C29: blueprint validation is all-or-nothing: when one element of the JSON
\* object the collaborator sent fails validation, the blueprint is the
\* fallback, without any of the charts of that object, and the chart loop
\* makes no chart; the blueprint returned holds either every chart of the
\* object, each in its place, or none.
C29_AllOrNothing ==
    (op = "analyze_dataset_structure" /\ CarriesJson(arg)
                                      /\ CarriedJson(arg).type = "object") =>
        LET data == CarriedJson(arg)
            got == res.blueprint.recommended_charts
        IN  /\ SomeElementFails(data) =>
                  /\ res.blueprint = _get_fallback_blueprint
                  /\ got = <<>>
                  /\ ChartsMade(res.blueprint) = <<>>
            /\ \/ got = <<>>
               \/ /\ Len(got) = Len(data.recommended_charts)
                  /\ \A i \in DOMAIN got :
                        got[i] = ChartRecommendation(data.recommended_charts[i])

\* A reply with a valid bar chart, which has data on the HR dataset, next to
\* a waterfall chart got the fallback, and no chart is made.
C29_ValidChartLostWitness ==
    /\ op = "analyze_dataset_structure"
    /\ CarriesJson(arg)
    /\ CarriedJson(arg) = WaterfallJson
    /\ ChartValidates(WaterfallJson.recommended_charts[1])
    /\ calculate_chart_data(HrFrame,
          ChartRecommendation(WaterfallJson.recommended_charts[1])).data # <<>>
    /\ res.blueprint = _get_fallback_blueprint
    /\ ChartsMade(res.blueprint) = <<>>

====
